---- MODULE Spec2Model ----
(***************************************************************************)
(* Model of the tutorial-generation pipeline of nodes.py / flow.py.        *)
(*                                                                         *)
(* The pipeline is the chain wired by create_tutorial_flow:                *)
(*   FetchRepo >> AnalyzeFastAPIEndpoints >> GenerateAPIDocumentation      *)
(*   >> IdentifyAbstractions >> AnalyzeAPICalls >> AnalyzeRelationships    *)
(*   >> OrderChapters >> WriteChapters >> CombineTutorial                  *)
(* Every node runs prep, then exec under the retry loop of the flow        *)
(* library (max_retries attempts, self.cur_retry = attempt number), then   *)
(* post.  WriteChapters is a batch node: its exec runs once per item, each *)
(* item under its own retry loop.                                          *)
(*                                                                         *)
(* Text is modelled as a sequence of one-character strings, so that the    *)
(* index parsing (split at '#', strip, int) is computed as the code does.  *)
(* A generator reply is modelled by the fence it carries and by the value  *)
(* yaml.safe_load returns for the fenced block.                            *)
(***************************************************************************)
EXTENDS Integers, Sequences, FiniteSets, TLC

(***************************************************************************)
(* Bounds of the model.                                                    *)
(***************************************************************************)
MaxFiles == 2

MaxAbs == 2

MaxEntries == 2

\* longest relationship label drawn (the diagram cuts labels at 30)
MaxLabel == 33

(***************************************************************************)
(* Parsed YAML values (what yaml.safe_load returns), tagged by Python type.*)
(***************************************************************************)
YInt(v) == [t |-> "int", v |-> v]

YBool(b) == [t |-> "bool", b |-> b]

YStr(s) == [t |-> "str", s |-> s]

YFloat(s) == [t |-> "float", s |-> s]

YNull == [t |-> "null"]

YList(items) == [t |-> "list", items |-> items]

YDict(d) == [t |-> "dict", d |-> d]

YError == [t |-> "YAMLError"]

(***************************************************************************)
(* Python string primitives used by the validators.                       *)
(***************************************************************************)
Digits == {"0", "1", "2", "3", "4", "5", "6", "7", "8", "9"}

Whitespace == {" ", "\n"}

DigitVal(c) ==
  CASE c = "0" -> 0 [] c = "1" -> 1 [] c = "2" -> 2 [] c = "3" -> 3
    [] c = "4" -> 4 [] c = "5" -> 5 [] c = "6" -> 6 [] c = "7" -> 7
    [] c = "8" -> 8 [] c = "9" -> 9

DigitChar(d) ==
  CASE d = 0 -> "0" [] d = 1 -> "1" [] d = 2 -> "2" [] d = 3 -> "3"
    [] d = 4 -> "4" [] d = 5 -> "5" [] d = 6 -> "6" [] d = 7 -> "7"
    [] d = 8 -> "8" [] d = 9 -> "9"

\* s.split("#")[0]: the text before the first '#', the whole text if none
RECURSIVE SplitHashFirst(_)
SplitHashFirst(s) ==
  IF s = <<>> \/ Head(s) = "#" THEN <<>>
  ELSE <<Head(s)>> \o SplitHashFirst(Tail(s))

RECURSIVE LStrip(_)
LStrip(s) ==
  IF s # <<>> /\ Head(s) \in Whitespace THEN LStrip(Tail(s)) ELSE s

RECURSIVE RStrip(_)
RStrip(s) ==
  IF s # <<>> /\ s[Len(s)] \in Whitespace
  THEN RStrip(SubSeq(s, 1, Len(s) - 1)) ELSE s

\* s.strip()
Strip(s) == RStrip(LStrip(s))

\* "#" in s
HasHash(s) == \E i \in 1..Len(s) : s[i] = "#"

RECURSIVE DigitsValue(_, _)
DigitsValue(s, acc) ==
  IF s = <<>> THEN acc ELSE DigitsValue(Tail(s), 10 * acc + DigitVal(Head(s)))

AllDigits(s) == s # <<>> /\ \A i \in 1..Len(s) : s[i] \in Digits

\* int(s) on text: optional sign, then decimal digits; anything else is a
\* ValueError (ok = FALSE).  Surrounding whitespace is accepted by int().
ParseInt(s0) ==
  LET s == Strip(s0) IN
  IF s # <<>> /\ Head(s) \in {"-", "+"}
  THEN IF AllDigits(Tail(s))
       THEN [ok |-> TRUE,
             v |-> IF Head(s) = "-" THEN 0 - DigitsValue(Tail(s), 0)
                   ELSE DigitsValue(Tail(s), 0)]
       ELSE [ok |-> FALSE, v |-> 0]
  ELSE IF AllDigits(s) THEN [ok |-> TRUE, v |-> DigitsValue(s, 0)]
       ELSE [ok |-> FALSE, v |-> 0]

RECURSIVE NatToChars(_)
NatToChars(n) ==
  IF n < 10 THEN <<DigitChar(n)>>
  ELSE NatToChars(n \div 10) \o <<DigitChar(n % 10)>>

\* str(v) for a parsed YAML scalar
PyStr(y) ==
  CASE y.t = "str" -> y.s
    [] y.t = "int" -> IF y.v < 0 THEN <<"-">> \o NatToChars(0 - y.v)
                      ELSE NatToChars(y.v)
    [] y.t = "bool" -> IF y.b THEN <<"T", "r", "u", "e">>
                       ELSE <<"F", "a", "l", "s", "e">>
    [] y.t = "float" -> y.s
    [] y.t = "null" -> <<"N", "o", "n", "e">>
    [] OTHER -> <<"{", "}">>

\* the integer value of a Python int instance (bool is a subclass of int:
\* True == 1, False == 0, also as set element and sort key)
IntValue(y) == IF y.t = "bool" THEN (IF y.b THEN 1 ELSE 0) ELSE y.v

\* isinstance(y, int)
IsInt(y) == y.t \in {"int", "bool"}

\* sorted(list(S)) for a set of integers
RECURSIVE SortedList(_)
SortedList(S) ==
  IF S = {} THEN <<>>
  ELSE LET m == CHOOSE x \in S : \A y \in S : x <= y
       IN <<m>> \o SortedList(S \ {m})

Range(s) == {s[i] : i \in 1..Len(s)}


(***************************************************************************)
(* Generator replies.  call_llm either raises (kind "transport") or        *)
(* returns text; the text carries a ```yaml fence, only a plain ``` fence, *)
(* or no fence, and yaml is what yaml.safe_load returns for the block      *)
(* (YError when it raises yaml.YAMLError).                                 *)
(***************************************************************************)
TransportFailure == [kind |-> "transport", fence |-> "none", yaml |-> YNull]

TextReply(fence, y) == [kind |-> "text", fence |-> fence, yaml |-> y]

Ok(v) == [ok |-> TRUE, value |-> v, err |-> "none"]

Fail(e) == [ok |-> FALSE, value |-> <<>>, err |-> e]

\* response.strip().split("```yaml")[1].split("```")[0].strip() followed by
\* yaml.safe_load: without a ```yaml tag split(...)[1] raises IndexError
ExtractYaml(reply) ==
  IF reply.kind = "transport" THEN Fail("TransportError")
  ELSE IF reply.fence # "yaml" THEN Fail("IndexError")
  ELSE IF reply.yaml.t = "YAMLError" THEN Fail("YAMLError")
  ELSE Ok(reply.yaml)

\* the three-way parse of an index entry (int / "n # comment" / other)
ParseIndexEntry(entry) ==
  IF IsInt(entry) THEN [ok |-> TRUE, v |-> IntValue(entry)]
  ELSE IF entry.t = "str" /\ HasHash(entry.s)
       THEN ParseInt(Strip(SplitHashFirst(entry.s)))
       ELSE ParseInt(Strip(PyStr(entry)))

\* variant: the range check on a file index is missing
RECURSIVE ValidateFileIndicesNoRange(_, _, _)
ValidateFileIndicesNoRange(entries, file_count, validated_indices) ==
  IF entries = <<>> THEN Ok(validated_indices)
  ELSE LET p == ParseIndexEntry(Head(entries)) IN
       IF ~p.ok THEN Fail("Could not parse index")
       ELSE ValidateFileIndicesNoRange(Tail(entries), file_count,
                                       Append(validated_indices, p.v))

\* the loop over item["file_indices"]: the first entry that does not parse
\* or is out of range raises; the range error is raised inside the try and
\* is re-raised by the except clause as "Could not parse index"
RECURSIVE ValidateFileIndices(_, _, _)
ValidateFileIndices(entries, file_count, validated_indices) ==
  IF entries = <<>> THEN Ok(validated_indices)
  ELSE LET p == ParseIndexEntry(Head(entries)) IN
       IF ~p.ok THEN Fail("Could not parse index")
       ELSE IF ~(0 <= p.v /\ p.v < file_count)
            THEN Fail("Could not parse index")
            ELSE ValidateFileIndices(Tail(entries), file_count,
                                     Append(validated_indices, p.v))

AbstractionKeys == {"name", "description", "file_indices"}

\* variant: the validated indices are stored as they were listed
ValidateAbstractionItemAsListed(item, file_count) ==
  IF item.t # "dict" \/ ~(AbstractionKeys \subseteq DOMAIN item.d)
  THEN Fail("Missing keys in abstraction item")
  ELSE IF item.d["name"].t # "str" THEN Fail("Name is not a string")
  ELSE IF item.d["description"].t # "str"
       THEN Fail("Description is not a string")
  ELSE IF item.d["file_indices"].t # "list"
       THEN Fail("file_indices is not a list")
  ELSE LET r == ValidateFileIndices(item.d["file_indices"].items,
                                    file_count, <<>>) IN
       IF ~r.ok THEN r
       ELSE Ok([name |-> item.d["name"].s,
                description |-> item.d["description"].s,
                files |-> r.value])

ValidateAbstractionItem(item, file_count) ==
  IF item.t # "dict" \/ ~(AbstractionKeys \subseteq DOMAIN item.d)
  THEN Fail("Missing keys in abstraction item")
  ELSE IF item.d["name"].t # "str" THEN Fail("Name is not a string")
  ELSE IF item.d["description"].t # "str"
       THEN Fail("Description is not a string")
  ELSE IF item.d["file_indices"].t # "list"
       THEN Fail("file_indices is not a list")
  ELSE LET r == ValidateFileIndices(item.d["file_indices"].items,
                                    file_count, <<>>) IN
       IF ~r.ok THEN r
       ELSE Ok([name |-> item.d["name"].s,
                description |-> item.d["description"].s,
                files |-> SortedList(Range(r.value))])

RECURSIVE ValidateAbstractionItems(_, _, _)
ValidateAbstractionItems(items, file_count, validated_abstractions) ==
  IF items = <<>> THEN Ok(validated_abstractions)
  ELSE LET r == ValidateAbstractionItem(Head(items), file_count) IN
       IF ~r.ok THEN r
       ELSE ValidateAbstractionItems(Tail(items), file_count,
                                     Append(validated_abstractions, r.value))

\* IdentifyAbstractions.exec after the generator call
IdentifyAbstractionsValidate(reply, file_count) ==
  LET y == ExtractYaml(reply) IN
  IF ~y.ok THEN y
  ELSE IF y.value.t # "list" THEN Fail("LLM Output is not a list")
  ELSE ValidateAbstractionItems(y.value.items, file_count, <<>>)

(***************************************************************************)
(* AnalyzeRelationships.exec after the generator call.                     *)
(***************************************************************************)
RelationshipKeys == {"from_abstraction", "to_abstraction", "label"}

\* int(str(x).split("#")[0].strip())
ParseRelIndex(y) == ParseInt(Strip(SplitHashFirst(PyStr(y))))

\* variant: only the source index is checked against the range
ValidateRelationshipFromOnly(rel, num_abstractions) ==
  IF rel.t # "dict" \/ ~(RelationshipKeys \subseteq DOMAIN rel.d)
  THEN Fail("Missing keys in relationship item")
  ELSE IF rel.d["label"].t # "str"
       THEN Fail("Relationship label is not a string")
  ELSE LET f == ParseRelIndex(rel.d["from_abstraction"]) IN
       IF ~f.ok THEN Fail("Could not parse indices from relationship")
       ELSE LET g == ParseRelIndex(rel.d["to_abstraction"]) IN
       IF ~g.ok THEN Fail("Could not parse indices from relationship")
       ELSE IF ~(0 <= f.v /\ f.v < num_abstractions)
            THEN Fail("Could not parse indices from relationship")
            ELSE Ok([from |-> f.v, to |-> g.v, label |-> rel.d["label"].s])

\* variant: an index equal to the number of abstractions is in range
ValidateRelationshipUpTo(rel, num_abstractions) ==
  IF rel.t # "dict" \/ ~(RelationshipKeys \subseteq DOMAIN rel.d)
  THEN Fail("Missing keys in relationship item")
  ELSE IF rel.d["label"].t # "str"
       THEN Fail("Relationship label is not a string")
  ELSE LET f == ParseRelIndex(rel.d["from_abstraction"]) IN
       IF ~f.ok THEN Fail("Could not parse indices from relationship")
       ELSE LET g == ParseRelIndex(rel.d["to_abstraction"]) IN
       IF ~g.ok THEN Fail("Could not parse indices from relationship")
       ELSE IF ~(0 <= f.v /\ f.v <= num_abstractions
                 /\ 0 <= g.v /\ g.v <= num_abstractions)
            THEN Fail("Could not parse indices from relationship")
            ELSE Ok([from |-> f.v, to |-> g.v, label |-> rel.d["label"].s])

ValidateRelationship(rel, num_abstractions) ==
  IF rel.t # "dict" \/ ~(RelationshipKeys \subseteq DOMAIN rel.d)
  THEN Fail("Missing keys in relationship item")
  ELSE IF rel.d["label"].t # "str"
       THEN Fail("Relationship label is not a string")
  ELSE LET f == ParseRelIndex(rel.d["from_abstraction"]) IN
       IF ~f.ok THEN Fail("Could not parse indices from relationship")
       ELSE LET g == ParseRelIndex(rel.d["to_abstraction"]) IN
       IF ~g.ok THEN Fail("Could not parse indices from relationship")
       ELSE IF ~(0 <= f.v /\ f.v < num_abstractions
                 /\ 0 <= g.v /\ g.v < num_abstractions)
            THEN Fail("Could not parse indices from relationship")
            ELSE Ok([from |-> f.v, to |-> g.v, label |-> rel.d["label"].s])

RECURSIVE ValidateRelationshipItems(_, _, _)
ValidateRelationshipItems(rels, num_abstractions, validated_relationships) ==
  IF rels = <<>> THEN Ok(validated_relationships)
  ELSE LET r == ValidateRelationship(Head(rels), num_abstractions) IN
       IF ~r.ok THEN r
       ELSE ValidateRelationshipItems(Tail(rels), num_abstractions,
                                      Append(validated_relationships, r.value))

AnalyzeRelationshipsValidate(reply, num_abstractions) ==
  LET y == ExtractYaml(reply) IN
  IF ~y.ok THEN y
  ELSE IF y.value.t # "dict"
          \/ ~({"summary", "relationships"} \subseteq DOMAIN y.value.d)
       THEN Fail("LLM output is not a dict or missing keys")
  ELSE IF y.value.d["summary"].t # "str" THEN Fail("summary is not a string")
  ELSE IF y.value.d["relationships"].t # "list"
       THEN Fail("relationships is not a list")
  ELSE LET r == ValidateRelationshipItems(y.value.d["relationships"].items,
                                          num_abstractions, <<>>) IN
       IF ~r.ok THEN r
       ELSE Ok([summary |-> y.value.d["summary"].s, details |-> r.value])

(***************************************************************************)
(* OrderChapters.exec after the generator call.                            *)
(***************************************************************************)
\* variant: a repeated index is not detected
RECURSIVE ValidateOrderEntriesNoDup(_, _, _, _)
ValidateOrderEntriesNoDup(entries, num_abstractions, ordered_indices, seen_indices) ==
  IF entries = <<>> THEN Ok(ordered_indices)
  ELSE LET p == ParseIndexEntry(Head(entries)) IN
       IF ~p.ok THEN Fail("Could not parse index from ordered list entry")
       ELSE IF ~(0 <= p.v /\ p.v < num_abstractions)
            THEN Fail("Could not parse index from ordered list entry")
       ELSE ValidateOrderEntriesNoDup(Tail(entries), num_abstractions,
                                      Append(ordered_indices, p.v),
                                      seen_indices \cup {p.v})

\* the loop over the raw list; the range and duplicate errors are raised
\* inside the try and re-raised by the except clause
RECURSIVE ValidateOrderEntries(_, _, _, _)
ValidateOrderEntries(entries, num_abstractions, ordered_indices, seen_indices) ==
  IF entries = <<>> THEN Ok(ordered_indices)
  ELSE LET p == ParseIndexEntry(Head(entries)) IN
       IF ~p.ok THEN Fail("Could not parse index from ordered list entry")
       ELSE IF ~(0 <= p.v /\ p.v < num_abstractions)
            THEN Fail("Could not parse index from ordered list entry")
       ELSE IF p.v \in seen_indices
            THEN Fail("Could not parse index from ordered list entry")
       ELSE ValidateOrderEntries(Tail(entries), num_abstractions,
                                 Append(ordered_indices, p.v),
                                 seen_indices \cup {p.v})

\* the result carries, on a length mismatch, the set the message names
OrderResult(ok, value, err, missing) ==
  [ok |-> ok, value |-> value, err |-> err, missing |-> missing]

OrderChaptersValidate(reply, num_abstractions) ==
  LET y == ExtractYaml(reply) IN
  IF ~y.ok THEN OrderResult(FALSE, <<>>, y.err, {})
  ELSE IF y.value.t # "list"
       THEN OrderResult(FALSE, <<>>, "LLM output is not a list", {})
  ELSE LET r == ValidateOrderEntries(y.value.items, num_abstractions,
                                     <<>>, {}) IN
       IF ~r.ok THEN OrderResult(FALSE, <<>>, r.err, {})
       ELSE IF Len(r.value) # num_abstractions
            THEN OrderResult(FALSE, <<>>, "Ordered list length does not match",
                             (0..(num_abstractions - 1)) \ Range(r.value))
            ELSE OrderResult(TRUE, r.value, "none", {})

(***************************************************************************)
(* The flow: stages, their retry configuration and their order.            *)
(***************************************************************************)
\* the chain built by the >> lines of create_tutorial_flow; three of the
\* node classes it names are defined in nodes.py but absent from the
\* import list of flow.py, and the model follows the chain as wired
StageOrder ==
  <<"FetchRepo", "AnalyzeFastAPIEndpoints", "GenerateAPIDocumentation",
    "IdentifyAbstractions", "AnalyzeAPICalls", "AnalyzeRelationships",
    "OrderChapters", "WriteChapters", "CombineTutorial">>

Stages == Range(StageOrder)

StageIndex(stage) == CHOOSE i \in 1..Len(StageOrder) : StageOrder[i] = stage

\* variant: the retry nodes are configured with one attempt more
MaxRetriesOneMore(stage) ==
  IF stage \in {"FetchRepo", "CombineTutorial"} THEN 1
  ELSE IF stage \in {"AnalyzeFastAPIEndpoints", "GenerateAPIDocumentation",
                     "AnalyzeAPICalls"} THEN 3
  ELSE 6

\* max_retries of each node as instantiated by create_tutorial_flow
MaxRetries(stage) ==
  CASE stage \in {"FetchRepo", "CombineTutorial"} -> 1
    [] stage \in {"AnalyzeFastAPIEndpoints", "GenerateAPIDocumentation",
                  "AnalyzeAPICalls"} -> 3
    [] OTHER -> 5

\* variant: OrderChapters wired before AnalyzeRelationships
SuccessorSwapped(stage) ==
  CASE stage = "AnalyzeAPICalls" -> "OrderChapters"
    [] stage = "OrderChapters" -> "AnalyzeRelationships"
    [] stage = "AnalyzeRelationships" -> "WriteChapters"
    [] stage = "CombineTutorial" -> "End"
    [] OTHER -> StageOrder[StageIndex(stage) + 1]

\* the `>>` wiring: the node that runs after stage, "End" after the last
Successor(stage) ==
  IF StageIndex(stage) = Len(StageOrder) THEN "End"
  ELSE StageOrder[StageIndex(stage) + 1]

\* variant: the retry number is not consulted
CacheEligibleAlways(use_cache, retry) == use_cache

\* use_cache=(use_cache and self.cur_retry == 0)
CacheEligible(use_cache, retry) == use_cache /\ retry = 0

(***************************************************************************)
(* Text helpers of WriteChapters and CombineTutorial.                      *)
(***************************************************************************)
StartsWith(s, p) == Len(s) >= Len(p) /\ SubSeq(s, 1, Len(p)) = p

\* s.split("\n")[0]
RECURSIVE FirstLine(_)
FirstLine(s) ==
  IF s = <<>> \/ Head(s) = "\n" THEN <<>>
  ELSE <<Head(s)>> \o FirstLine(Tail(s))

\* what follows the first line, its leading "\n" included
AfterFirstLine(s) == SubSeq(s, Len(FirstLine(s)) + 1, Len(s))

UpperLetters ==
  <<"A", "B", "C", "D", "E", "F", "G", "H", "I", "J", "K", "L", "M",
    "N", "O", "P", "Q", "R", "S", "T", "U", "V", "W", "X", "Y", "Z">>

LowerLetters ==
  <<"a", "b", "c", "d", "e", "f", "g", "h", "i", "j", "k", "l", "m",
    "n", "o", "p", "q", "r", "s", "t", "u", "v", "w", "x", "y", "z">>

\* c.isalnum()
IsAlnum(c) == c \in Digits \cup Range(UpperLetters) \cup Range(LowerLetters)

\* c.lower()
LowerChar(c) ==
  IF c \in Range(UpperLetters)
  THEN LowerLetters[CHOOSE i \in 1..26 : UpperLetters[i] = c]
  ELSE c

\* variant: separators at the end of the name are dropped
SafeNameTrimmed(name) ==
  LET last == IF \E i \in 1..Len(name) : IsAlnum(name[i])
              THEN CHOOSE i \in 1..Len(name) :
                     /\ IsAlnum(name[i])
                     /\ \A j \in (i + 1)..Len(name) : ~IsAlnum(name[j])
              ELSE 0
  IN [i \in 1..last |->
        IF IsAlnum(name[i]) THEN LowerChar(name[i]) ELSE "_"]

\* "".join(c if c.isalnum() else "_" for c in name).lower()
SafeName(name) ==
  [i \in 1..Len(name) |->
     IF IsAlnum(name[i]) THEN LowerChar(name[i]) ELSE "_"]

\* variant: the number is not padded
Pad2Unpadded(n) == NatToChars(n)

\* f"{n:02d}"
Pad2(n) == IF n < 10 THEN <<"0">> \o NatToChars(n) ELSE NatToChars(n)

\* f"{i+1:02d}_{safe_name}.md"
ChapterFilename(chapter_num, name) ==
  Pad2(chapter_num) \o <<"_">> \o SafeName(name) \o <<".", "m", "d">>

\* f"# Chapter {chapter_num}"
HeadingPrefix(chapter_num) ==
  <<"#", " ", "C", "h", "a", "p", "t", "e", "r", " ">> \o NatToChars(chapter_num)

\* f"# Chapter {chapter_num}: {abstraction_name}"
ActualHeading(chapter_num, name) ==
  HeadingPrefix(chapter_num) \o <<":", " ">> \o name

\* the "basic validation/cleanup" of WriteChapters.exec
NormalizeHeading(chapter_content, chapter_num, name) ==
  LET stripped == Strip(chapter_content) IN
  IF StartsWith(stripped, HeadingPrefix(chapter_num)) THEN chapter_content
  ELSE IF StartsWith(Strip(FirstLine(stripped)), <<"#">>)
       THEN ActualHeading(chapter_num, name) \o AfterFirstLine(stripped)
       ELSE ActualHeading(chapter_num, name) \o <<"\n", "\n">> \o chapter_content

\* label.replace('"', "").replace("\n", " "), cut to 30 with "..."
RECURSIVE CleanLabel(_)
CleanLabel(label) ==
  IF label = <<>> THEN <<>>
  ELSE IF Head(label) = "\"" THEN CleanLabel(Tail(label))
  ELSE IF Head(label) = "\n" THEN <<" ">> \o CleanLabel(Tail(label))
  ELSE <<Head(label)>> \o CleanLabel(Tail(label))

max_label_len == 30

\* variant: the cut keeps max_label_len characters before the ellipsis
EdgeLabelCutAtMax(label) ==
  LET edge_label == CleanLabel(label) IN
  IF Len(edge_label) > max_label_len
  THEN SubSeq(edge_label, 1, max_label_len) \o <<".", ".", ".">>
  ELSE edge_label

EdgeLabel(label) ==
  LET edge_label == CleanLabel(label) IN
  IF Len(edge_label) > max_label_len
  THEN SubSeq(edge_label, 1, max_label_len - 3) \o <<".", ".", ".">>
  ELSE edge_label

Footer == <<"-", "-", "-">>

\* variant: the body is written as generated
WithFooterMissing(chapter_content) == chapter_content

\* the chapter body as written: "\n\n" appended unless it ends with it,
\* then the fixed footer
WithFooter(chapter_content) ==
  (IF Len(chapter_content) >= 2
      /\ SubSeq(chapter_content, Len(chapter_content) - 1,
                Len(chapter_content)) = <<"\n", "\n">>
   THEN chapter_content ELSE chapter_content \o <<"\n", "\n">>) \o Footer

(***************************************************************************)
(* Inputs of the model: what the collaborators (crawler, generator) may    *)
(* return.                                                                 *)
(***************************************************************************)
\* the i-th collected file (0-based): extensions cycle md, py, js
FileAt(i) ==
  [path |-> i, ext |-> CASE i % 3 = 0 -> "py" [] i % 3 = 1 -> "js"
                         [] OTHER -> "md"]

\* crawl results: the first n files of the pool, n = 0 is the empty result
CrawlResults == {[i \in 1..n |-> FileAt(i - 1)] : n \in 0..MaxFiles}

NameAt(j) ==
  CASE j = 0 -> <<"C", "a", "c", "h", "e", "!">>
    [] j = 1 -> <<"C", "a", "c", "h", "e", "?">>
    [] OTHER -> <<"N">> \o NatToChars(j)

Comment(n) == NatToChars(n) \o <<" ", "#", " ", "x">>

\* a well-formed abstraction entry whose indices are unsorted and repeated
AbsItemY(j, fc) ==
  YDict([k \in AbstractionKeys |->
    CASE k = "name" -> YStr(NameAt(j))
      [] k = "description" -> YStr(<<"d">>)
      [] OTHER -> YList(<<YStr(Comment((j + 1) % fc)), YInt(j % fc),
                          YInt((j + 1) % fc)>>)])

AbsListY(n, fc) == YList([j \in 1..n |-> AbsItemY(j - 1, fc)])

BadAbsItemY(fc) ==
  YDict([k \in AbstractionKeys |->
    CASE k = "name" -> YStr(NameAt(0))
      [] k = "description" -> YStr(<<"d">>)
      [] OTHER -> YList(<<YInt(0), YInt(fc + 2)>>)])

AbsReplies(fc) ==
  {TransportFailure, TextReply("none", YNull),
   TextReply("plain", AbsListY(1, fc)), TextReply("yaml", YError),
   TextReply("yaml", YStr(<<"x">>)),
   TextReply("yaml", YList(<<BadAbsItemY(fc)>>))}
  \cup {TextReply("yaml", AbsListY(n, fc)) : n \in 0..MaxAbs}

LongLabel == [i \in 1..32 |-> IF i = 3 THEN "\"" ELSE "l"]

RelY(from, to, label) ==
  YDict([k \in RelationshipKeys |->
    CASE k = "from_abstraction" -> from
      [] k = "to_abstraction" -> to
      [] OTHER -> label])

RelDocY(rels) ==
  YDict([k \in {"summary", "relationships"} |->
    IF k = "summary" THEN YStr(<<"s">>) ELSE YList(rels)])

ValidRelLists(n) ==
  {<<>>}
  \cup (IF n = 0 THEN {}
        ELSE {<<RelY(YInt(0), YStr(Comment(n - 1)), YStr(<<"U", "s", "e", "s">>)),
                RelY(YStr(Comment(n - 1)), YInt(0), YStr(LongLabel)),
                RelY(YInt(0), YInt(0), YStr(<<"a", "\n", "b">>))>>})

RelReplies(n) ==
  {TransportFailure, TextReply("none", YNull), TextReply("yaml", YError),
   TextReply("yaml", YList(<<>>)),
   TextReply("yaml", RelDocY(<<RelY(YInt(9), YInt(0), YStr(<<"U">>))>>)),
   TextReply("yaml", RelDocY(<<RelY(YInt(0), YInt(n), YStr(<<"U">>))>>)),
   TextReply("yaml", RelDocY(<<RelY(YStr(Comment(0)), YStr(<<"-", "1">>),
                                    YStr(<<"U">>))>>)),
   TextReply("yaml", RelDocY(<<RelY(YInt(0), YInt(0), YInt(1))>>))}
  \cup {TextReply("yaml", RelDocY(rels)) : rels \in ValidRelLists(n)}

\* the rotations of 0..n-1: the identity order and, for n > 1, orders that
\* differ from it at every position
Rotations(n) ==
  {[i \in 1..n |-> (i - 1 + k) % n] : k \in 0..(IF n = 0 THEN 0 ELSE n - 1)}

\* an order that leaves the last index out
ShortOrders(n) ==
  IF n = 0 THEN {} ELSE {[i \in 1..(n - 1) |-> i - 1]}

\* an order entry: even indices bare, odd indices as "idx # comment"
OrderEntryY(idx) == IF idx % 2 = 0 THEN YInt(idx) ELSE YStr(Comment(idx))

OrderListY(s) == YList([i \in 1..Len(s) |-> OrderEntryY(s[i])])

OrderReplies(n) ==
  {TransportFailure, TextReply("none", YNull), TextReply("yaml", YError),
   TextReply("yaml", YNull),
   TextReply("yaml", YList(<<YInt(0), YInt(0)>>)),
   TextReply("yaml", YList(<<YInt(n)>>))}
  \cup {TextReply("yaml", OrderListY(s)) :
          s \in Rotations(n) \cup ShortOrders(n)}

ChapterReply(text) ==
  [kind |-> "text", fence |-> "none", yaml |-> YNull, text |-> text]

Body == <<"\n", "\n", "B">>

\* generated chapter texts: the expected heading, no heading, another heading
ChapterTexts(chapter_num, name) ==
  {ActualHeading(chapter_num, name) \o Body,
   <<"B">>,
   <<" ", "#", "X">> \o Body}

ChapterReplies(chapter_num, name) ==
  {[TransportFailure EXCEPT !.kind = "transport"]}
  \cup {ChapterReply(t) : t \in ChapterTexts(chapter_num, name)}

\* per-file replies of the API analysis stages
FileReplies ==
  {TransportFailure, TextReply("yaml", YError),
   TextReply("plain", YList(<<>>)), TextReply("none", YStr(<<"x">>)),
   TextReply("yaml", YList(<<YStr(<<"e">>)>>)),
   TextReply("none", YList(<<YStr(<<"e">>)>>))}

DocText == <<"d", "o", "c">>

\* replies to the documentation prompt: failure, blank text, a document
DocReplies ==
  {[kind |-> "transport", text |-> <<>>],
   [kind |-> "text", text |-> <<" ", "\n">>],
   [kind |-> "text", text |-> <<" ">> \o DocText \o <<"\n">>]}

(***************************************************************************)
(* State.                                                                  *)
(*   pc       the node the flow is at and its step (prep / exec / post),    *)
(*            or "aborted" at the node whose exception ended the run, or   *)
(*            "done" after the last node                                   *)
(*   shared   the shared dictionary; keys is the set of keys it holds      *)
(*   prep_res, exec_res   the values handed from prep to exec to post      *)
(*   cur_retry            self.cur_retry of the running node               *)
(*   chapters_written_so_far, batch_i   WriteChapters' accumulator and the *)
(*            1-based position of the item being executed                  *)
(*   last_call, last_reply   the latest generator call of the running node *)
(*            and its outcome; last_error the exception its latest attempt *)
(*            raised; all three are cleared when the next node starts      *)
(*   output   the files written by CombineTutorial.exec, in order          *)
(*   hist     history of the run, used only to state properties: attempts  *)
(*            made and kinds of failure seen by the retry loop now running *)
(*            (the kinds are forgotten when the loop ends with a result),   *)
(*            prep order, keys read, context writes                        *)
(***************************************************************************)
VARIABLES pc, shared, keys, prep_res, exec_res, cur_retry,
          chapters_written_so_far, batch_i, last_call, last_reply,
          last_error, output, hist

vars == <<pc, shared, keys, prep_res, exec_res, cur_retry,
          chapters_written_so_far, batch_i, last_call, last_reply,
          last_error, output, hist>>

At(stage, phase) == [stage |-> stage, phase |-> phase]

InputKeys ==
  {"repo_url", "local_dir", "github_token", "output_dir", "include_patterns",
   "exclude_patterns", "max_file_size", "language", "use_cache",
   "max_abstraction_num"}

\* keys prep reads with shared[...]: a missing key is a KeyError
RequiredKeys(stage) ==
  CASE stage = "FetchRepo" ->
         {"include_patterns", "exclude_patterns", "max_file_size"}
    [] stage = "AnalyzeFastAPIEndpoints" -> {"files", "project_name"}
    [] stage = "GenerateAPIDocumentation" -> {"project_name"}
    [] stage = "IdentifyAbstractions" -> {"files", "project_name"}
    [] stage = "AnalyzeAPICalls" -> {"files", "project_name"}
    [] stage = "AnalyzeRelationships" ->
         {"abstractions", "files", "project_name"}
    [] stage = "OrderChapters" ->
         {"abstractions", "relationships", "project_name"}
    [] stage = "WriteChapters" ->
         {"chapter_order", "abstractions", "files", "project_name"}
    [] OTHER ->
         {"project_name", "relationships", "chapter_order", "abstractions",
          "chapters"}

\* keys prep reads with shared.get(...)
OptionalKeys(stage) ==
  CASE stage = "FetchRepo" ->
         {"repo_url", "local_dir", "project_name", "github_token"}
    [] stage = "GenerateAPIDocumentation" ->
         {"fastapi_endpoint_analysis", "language", "use_cache"}
    [] stage = "IdentifyAbstractions" ->
         {"language", "use_cache", "max_abstraction_num"}
    [] stage = "WriteChapters" ->
         {"language", "use_cache", "api_call_analysis"}
    [] stage = "CombineTutorial" ->
         {"output_dir", "repo_url", "api_documentation_md"}
    [] OTHER -> {"language", "use_cache"}

NoCall == [stage |-> "none", item |-> 0, retry |-> 0, cache |-> FALSE]

NoReply == [kind |-> "none"]

NoError == [err |-> "none", missing |-> {}]

Init ==
  /\ pc = At("FetchRepo", "prep")
  /\ \E given \in BOOLEAN, use_cache \in BOOLEAN :
       /\ shared = [project_name |-> IF given THEN "proj" ELSE "",
                    use_cache |-> use_cache,
                    files |-> <<>>,
                    fastapi_endpoint_analysis |-> <<>>,
                    api_documentation_md |-> <<>>,
                    abstractions |-> <<>>,
                    api_call_analysis |-> <<>>,
                    relationships |-> [summary |-> <<>>, details |-> <<>>],
                    chapter_order |-> <<>>,
                    chapters |-> <<>>,
                    final_output_dir |-> ""]
       /\ keys = InputKeys \cup (IF given THEN {"project_name"} ELSE {})
  /\ prep_res = <<>>
  /\ exec_res = <<>>
  /\ cur_retry = 0
  /\ chapters_written_so_far = <<>>
  /\ batch_i = 0
  /\ last_call = NoCall
  /\ last_reply = NoReply
  /\ last_error = NoError
  /\ output = <<>>
  /\ hist = [attempts |-> 0, failKinds |-> {},
             started |-> <<>>, swallowed |-> FALSE, writes |-> <<>>,
             readStage |-> "none", readKeys |-> {}, finalKeys |-> {},
             written_pos |-> <<>>]

(***************************************************************************)
(* Steps shared by all nodes.                                              *)
(***************************************************************************)
\* the keys written so far by a post step
PostKeys == {hist.writes[i].key : i \in {j \in 1..Len(hist.writes) :
                                            hist.writes[j].phase = "post"}}

\* history of a prep step: the node started, the keys it read, and which
\* keys a post step had written by then
PrepHist(stage, h) ==
  [h EXCEPT !.started = Append(@, stage),
            !.attempts = 0, !.failKinds = {},
            !.readStage = stage,
            !.readKeys = RequiredKeys(stage) \cup (OptionalKeys(stage) \cap keys),
            !.finalKeys = PostKeys]

WriteHist(stage, phase, key, h) ==
  [h EXCEPT !.writes = Append(@, [key |-> key, stage |-> stage,
                                   phase |-> phase, fresh |-> key \notin keys])]

\* prep of a node: a missing required key raises KeyError, which ends the
\* run; otherwise exec starts with cur_retry = 0
Prep(stage, res) ==
  /\ pc = At(stage, "prep")
  /\ IF RequiredKeys(stage) \subseteq keys
     THEN /\ pc' = At(stage, "exec")
          /\ prep_res' = res
     ELSE /\ pc' = At(stage, "aborted")
          /\ prep_res' = prep_res
  /\ cur_retry' = 0
  /\ last_call' = NoCall
  /\ last_reply' = NoReply
  /\ last_error' = NoError

\* one attempt of exec under the retry loop: a result ends the loop, an
\* exception on the last attempt is re-raised and ends the run, any other
\* exception starts the next attempt
Attempt(stage, reply, ok, value, error) ==
  /\ last_reply' = reply
  /\ last_error' = error
  /\ hist' = [hist EXCEPT
       !.attempts = @ + 1,
       !.failKinds = IF ok THEN {} ELSE @ \cup {reply.kind}]
  /\ IF ok
     THEN /\ pc' = At(stage, "post")
          /\ exec_res' = value
          /\ cur_retry' = cur_retry
     ELSE /\ exec_res' = exec_res
          /\ IF cur_retry = MaxRetries(stage) - 1
             THEN pc' = At(stage, "aborted") /\ cur_retry' = cur_retry
             ELSE pc' = pc /\ cur_retry' = cur_retry + 1

Call(stage, item) ==
  [stage |-> stage, item |-> item, retry |-> cur_retry,
   cache |-> CacheEligible(prep_res.use_cache, cur_retry)]

\* the flow moves to the successor once post has returned
Advance(stage) ==
  pc' = IF Successor(stage) = "End" THEN At("End", "done")
        ELSE At(Successor(stage), "prep")

(***************************************************************************)
(* FetchRepo                                                               *)
(***************************************************************************)
\* variant: the name is derived and stored even when one was given
NameMissingAlways(project_name) == TRUE

\* if not project_name
NameMissing(project_name) == project_name = ""

FetchRepoPrep ==
  /\ Prep("FetchRepo", [use_cache |-> FALSE])
  /\ IF NameMissing(shared.project_name)
     THEN /\ shared' = [shared EXCEPT !.project_name = "derived"]
          /\ keys' = keys \cup {"project_name"}
          /\ hist' = WriteHist("FetchRepo", "prep", "project_name",
                               PrepHist("FetchRepo", hist))
     ELSE /\ UNCHANGED <<shared, keys>>
          /\ hist' = PrepHist("FetchRepo", hist)
  /\ UNCHANGED <<exec_res, chapters_written_so_far, batch_i, output>>

\* variant: an empty result is not noticed
FetchFailedNever(files_list) == FALSE

\* if len(files_list) == 0: raise ValueError("Failed to fetch files")
FetchFailed(files_list) == Len(files_list) = 0

FetchRepoExec ==
  /\ pc = At("FetchRepo", "exec")
  /\ \E files_list \in CrawlResults :
       IF FetchFailed(files_list)
       THEN /\ pc' = At("FetchRepo", "aborted")
            /\ exec_res' = exec_res
            /\ last_error' = [err |-> "Failed to fetch files", missing |-> {}]
       ELSE /\ pc' = At("FetchRepo", "post")
            /\ exec_res' = files_list
            /\ last_error' = last_error
  /\ hist' = [hist EXCEPT !.attempts = @ + 1]
  /\ UNCHANGED <<shared, keys, prep_res, cur_retry, chapters_written_so_far,
                 batch_i, last_call, last_reply, output>>

\* post of a node that stores exec_res under one key
Post(stage, key, new_shared) ==
  /\ pc = At(stage, "post")
  /\ shared' = new_shared
  /\ keys' = keys \cup {key}
  /\ hist' = WriteHist(stage, "post", key, hist)
  /\ Advance(stage)

FetchRepoPost ==
  /\ Post("FetchRepo", "files", [shared EXCEPT !.files = exec_res])
  /\ UNCHANGED <<prep_res, exec_res, cur_retry, chapters_written_so_far,
                 batch_i, last_call, last_reply, last_error, output>>

(***************************************************************************)
(* The per-file API analysis nodes and the API documentation node: every   *)
(* generator call sits in a try block whose except clauses only print.     *)
(***************************************************************************)
\* variant: a reply that is no list is kept as the one thing found
FileReplyItemsAnyValue(reply) ==
  IF reply.kind = "transport" \/ reply.yaml.t = "YAMLError" THEN <<>>
  ELSE IF reply.yaml.t # "list" THEN <<reply.yaml>>
  ELSE reply.yaml.items

\* the lenient extraction of the per-file nodes: a ```yaml fence, else a
\* plain fence, else the whole text; then yaml.safe_load
FileReplyItems(reply) ==
  IF reply.kind = "transport" \/ reply.yaml.t = "YAMLError" THEN <<>>
  ELSE IF reply.yaml.t # "list" THEN <<>>
  ELSE reply.yaml.items

\* an exception was caught and printed for this file
FileReplySwallowed(reply) ==
  reply.kind = "transport" \/ reply.yaml.t = "YAMLError"

\* the loop over the files: a file is recorded only with a non-empty list
RECURSIVE AnalyzeFiles(_, _)
AnalyzeFiles(files, replies) ==
  IF files = <<>> THEN <<>>
  ELSE (IF FileReplyItems(Head(replies)) # <<>>
        THEN <<[file_path |-> Head(files).path,
                found |-> FileReplyItems(Head(replies))]>>
        ELSE <<>>) \o AnalyzeFiles(Tail(files), Tail(replies))

IsPython(f) == f.ext = "py"

IsFrontend(f) == f.ext \in {"js", "jsx", "ts", "tsx"}

FilePrepRes(selected) ==
  [none |-> selected = <<>>, files |-> selected, use_cache |-> shared.use_cache]

\* exec of a per-file node: no exception leaves it
FileExec(stage) ==
  /\ pc = At(stage, "exec")
  /\ IF prep_res.none
     THEN /\ exec_res' = <<>>
          /\ hist' = [hist EXCEPT !.attempts = @ + 1]
          /\ UNCHANGED <<last_call, last_reply>>
     ELSE \E replies \in [1..Len(prep_res.files) -> FileReplies] :
            /\ exec_res' = AnalyzeFiles(prep_res.files, replies)
            /\ last_call' = Call(stage, Len(prep_res.files))
            /\ last_reply' = replies[Len(prep_res.files)]
            /\ hist' = [hist EXCEPT
                 !.attempts = @ + 1,
                 !.swallowed = @ \/ \E i \in DOMAIN replies :
                                       FileReplySwallowed(replies[i])]
  /\ pc' = At(stage, "post")
  /\ UNCHANGED <<shared, keys, prep_res, cur_retry, chapters_written_so_far,
                 batch_i, last_error, output>>

AnalyzeFastAPIEndpointsPrep ==
  /\ Prep("AnalyzeFastAPIEndpoints",
          FilePrepRes(SelectSeq(shared.files, IsPython)))
  /\ hist' = PrepHist("AnalyzeFastAPIEndpoints", hist)
  /\ UNCHANGED <<shared, keys, exec_res, chapters_written_so_far, batch_i, output>>

AnalyzeFastAPIEndpointsExec == FileExec("AnalyzeFastAPIEndpoints")

AnalyzeFastAPIEndpointsPost ==
  /\ Post("AnalyzeFastAPIEndpoints", "fastapi_endpoint_analysis",
          [shared EXCEPT !.fastapi_endpoint_analysis = exec_res])
  /\ UNCHANGED <<prep_res, exec_res, cur_retry, chapters_written_so_far,
                 batch_i, last_call, last_reply, last_error, output>>

GenerateAPIDocumentationPrep ==
  /\ Prep("GenerateAPIDocumentation",
          [none |-> shared.fastapi_endpoint_analysis = <<>>,
           use_cache |-> shared.use_cache])
  /\ hist' = PrepHist("GenerateAPIDocumentation", hist)
  /\ UNCHANGED <<shared, keys, exec_res, chapters_written_so_far, batch_i, output>>

GenerateAPIDocumentationExec ==
  /\ pc = At("GenerateAPIDocumentation", "exec")
  /\ IF prep_res.none
     THEN /\ exec_res' = <<>>
          /\ hist' = [hist EXCEPT !.attempts = @ + 1]
          /\ UNCHANGED <<last_call, last_reply>>
     ELSE \E reply \in DocReplies :
            /\ exec_res' = IF reply.kind = "transport" THEN <<>>
                           ELSE Strip(reply.text)
            /\ last_call' = Call("GenerateAPIDocumentation", 0)
            /\ last_reply' = reply
            /\ hist' = [hist EXCEPT
                 !.attempts = @ + 1,
                 !.swallowed = @ \/ reply.kind = "transport"]
  /\ pc' = At("GenerateAPIDocumentation", "post")
  /\ UNCHANGED <<shared, keys, prep_res, cur_retry, chapters_written_so_far,
                 batch_i, last_error, output>>

GenerateAPIDocumentationPost ==
  /\ Post("GenerateAPIDocumentation", "api_documentation_md",
          [shared EXCEPT !.api_documentation_md = exec_res])
  /\ UNCHANGED <<prep_res, exec_res, cur_retry, chapters_written_so_far,
                 batch_i, last_call, last_reply, last_error, output>>

AnalyzeAPICallsPrep ==
  /\ Prep("AnalyzeAPICalls", FilePrepRes(SelectSeq(shared.files, IsFrontend)))
  /\ hist' = PrepHist("AnalyzeAPICalls", hist)
  /\ UNCHANGED <<shared, keys, exec_res, chapters_written_so_far, batch_i, output>>

AnalyzeAPICallsExec == FileExec("AnalyzeAPICalls")

AnalyzeAPICallsPost ==
  /\ Post("AnalyzeAPICalls", "api_call_analysis",
          [shared EXCEPT !.api_call_analysis = exec_res])
  /\ UNCHANGED <<prep_res, exec_res, cur_retry, chapters_written_so_far,
                 batch_i, last_call, last_reply, last_error, output>>

(***************************************************************************)
(* IdentifyAbstractions, AnalyzeRelationships, OrderChapters: one          *)
(* generator call per attempt, then validation; every exception of the     *)
(* attempt reaches the retry loop.                                         *)
(***************************************************************************)
IdentifyAbstractionsPrep ==
  /\ Prep("IdentifyAbstractions",
          [file_count |-> Len(shared.files), use_cache |-> shared.use_cache])
  /\ hist' = PrepHist("IdentifyAbstractions", hist)
  /\ UNCHANGED <<shared, keys, exec_res, chapters_written_so_far, batch_i, output>>

\* one attempt of exec, the generator's reply drawn from replies
IdentifyAbstractionsAttempt(replies) ==
  /\ pc = At("IdentifyAbstractions", "exec")
  /\ \E reply \in replies :
       LET r == IdentifyAbstractionsValidate(reply, prep_res.file_count)
       IN Attempt("IdentifyAbstractions", reply, r.ok, r.value,
                  [err |-> r.err, missing |-> {}])
  /\ last_call' = Call("IdentifyAbstractions", 0)
  /\ UNCHANGED <<shared, keys, prep_res, chapters_written_so_far, batch_i,
                 output>>

IdentifyAbstractionsExec ==
  IdentifyAbstractionsAttempt(AbsReplies(prep_res.file_count))

IdentifyAbstractionsPost ==
  /\ Post("IdentifyAbstractions", "abstractions",
          [shared EXCEPT !.abstractions = exec_res])
  /\ UNCHANGED <<prep_res, exec_res, cur_retry, chapters_written_so_far,
                 batch_i, last_call, last_reply, last_error, output>>

AnalyzeRelationshipsPrep ==
  /\ Prep("AnalyzeRelationships",
          [num_abstractions |-> Len(shared.abstractions),
           use_cache |-> shared.use_cache])
  /\ hist' = PrepHist("AnalyzeRelationships", hist)
  /\ UNCHANGED <<shared, keys, exec_res, chapters_written_so_far, batch_i, output>>

AnalyzeRelationshipsExec ==
  /\ pc = At("AnalyzeRelationships", "exec")
  /\ \E reply \in RelReplies(prep_res.num_abstractions) :
       LET r == AnalyzeRelationshipsValidate(reply, prep_res.num_abstractions)
       IN Attempt("AnalyzeRelationships", reply, r.ok, r.value,
                  [err |-> r.err, missing |-> {}])
  /\ last_call' = Call("AnalyzeRelationships", 0)
  /\ UNCHANGED <<shared, keys, prep_res, chapters_written_so_far, batch_i,
                 output>>

AnalyzeRelationshipsPost ==
  /\ Post("AnalyzeRelationships", "relationships",
          [shared EXCEPT !.relationships = exec_res])
  /\ UNCHANGED <<prep_res, exec_res, cur_retry, chapters_written_so_far,
                 batch_i, last_call, last_reply, last_error, output>>

OrderChaptersPrep ==
  /\ Prep("OrderChapters",
          [num_abstractions |-> Len(shared.abstractions),
           use_cache |-> shared.use_cache])
  /\ hist' = PrepHist("OrderChapters", hist)
  /\ UNCHANGED <<shared, keys, exec_res, chapters_written_so_far, batch_i, output>>

\* one attempt of exec, the generator's reply drawn from replies
OrderChaptersAttempt(replies) ==
  /\ pc = At("OrderChapters", "exec")
  /\ \E reply \in replies :
       LET r == OrderChaptersValidate(reply, prep_res.num_abstractions)
       IN Attempt("OrderChapters", reply, r.ok, r.value,
                  [err |-> r.err, missing |-> r.missing])
  /\ last_call' = Call("OrderChapters", 0)
  /\ UNCHANGED <<shared, keys, prep_res, chapters_written_so_far, batch_i,
                 output>>

OrderChaptersExec ==
  OrderChaptersAttempt(OrderReplies(prep_res.num_abstractions))

OrderChaptersPost ==
  /\ Post("OrderChapters", "chapter_order",
          [shared EXCEPT !.chapter_order = exec_res])
  /\ UNCHANGED <<prep_res, exec_res, cur_retry, chapters_written_so_far,
                 batch_i, last_call, last_reply, last_error, output>>

(***************************************************************************)
(* WriteChapters (batch node)                                              *)
(***************************************************************************)
NoChapter == [num |-> 0, name |-> <<>>, filename |-> <<>>]

\* variant: index 0 is taken for invalid
ValidIndexStrict(abstraction_index, abstractions) ==
  0 < abstraction_index /\ abstraction_index < Len(abstractions)

\* 0 <= abstraction_index < len(abstractions)
ValidIndex(abstraction_index, abstractions) ==
  0 <= abstraction_index /\ abstraction_index < Len(abstractions)

\* variant: the filename is numbered by the abstraction, not the position
ChapterInfoByIndex(i, chapter_order, abstractions) ==
  LET name == abstractions[chapter_order[i] + 1].name IN
  [num |-> i, name |-> name,
   filename |-> ChapterFilename(chapter_order[i] + 1, name)]

\* chapter_filenames[abstraction_index] for the entry at 1-based position i
ChapterInfo(i, chapter_order, abstractions) ==
  LET name == abstractions[chapter_order[i] + 1].name IN
  [num |-> i, name |-> name, filename |-> ChapterFilename(i, name)]

\* all_chapters: one line per valid entry of chapter_order
RECURSIVE ChapterListing(_, _, _)
ChapterListing(i, chapter_order, abstractions) ==
  IF i > Len(chapter_order) THEN <<>>
  ELSE (IF ValidIndex(chapter_order[i], abstractions)
        THEN <<ChapterInfo(i, chapter_order, abstractions)>>
        ELSE <<>>) \o ChapterListing(i + 1, chapter_order, abstractions)

\* variant: chapters are numbered from 0
ChapterItemFromZero(i, chapter_order, abstractions) ==
  [chapter_num |-> i - 1,
   abstraction_index |-> chapter_order[i],
   name |-> abstractions[chapter_order[i] + 1].name,
   files |-> abstractions[chapter_order[i] + 1].files,
   full_chapter_listing |-> <<>>,
   prev_chapter |-> NoChapter,
   next_chapter |-> NoChapter]

ChapterItem(i, chapter_order, abstractions) ==
  [chapter_num |-> i,
   abstraction_index |-> chapter_order[i],
   name |-> abstractions[chapter_order[i] + 1].name,
   files |-> abstractions[chapter_order[i] + 1].files,
   full_chapter_listing |-> ChapterListing(1, chapter_order, abstractions),
   prev_chapter |-> IF i > 1
                    THEN ChapterInfo(i - 1, chapter_order, abstractions)
                    ELSE NoChapter,
   next_chapter |-> IF i < Len(chapter_order)
                    THEN ChapterInfo(i + 1, chapter_order, abstractions)
                    ELSE NoChapter]

\* items_to_process
RECURSIVE ItemsToProcess(_, _, _)
ItemsToProcess(i, chapter_order, abstractions) ==
  IF i > Len(chapter_order) THEN <<>>
  ELSE (IF ValidIndex(chapter_order[i], abstractions)
        THEN <<ChapterItem(i, chapter_order, abstractions)>>
        ELSE <<>>) \o ItemsToProcess(i + 1, chapter_order, abstractions)

\* variant: the finished chapter is not added to the accumulator
AppendChapterForgotten(written, chapter_content) == written

\* self.chapters_written_so_far.append(chapter_content)
AppendChapter(written, chapter_content) == Append(written, chapter_content)

\* prep resets the accumulator; an empty batch goes straight to post
WriteChaptersPrep ==
  LET items == ItemsToProcess(1, shared.chapter_order, shared.abstractions) IN
  /\ pc = At("WriteChapters", "prep")
  /\ IF ~(RequiredKeys("WriteChapters") \subseteq keys)
     THEN pc' = At("WriteChapters", "aborted") /\ prep_res' = prep_res
     ELSE /\ prep_res' = [items |-> items, use_cache |-> shared.use_cache]
          /\ pc' = IF items = <<>> THEN At("WriteChapters", "post")
                   ELSE At("WriteChapters", "exec")
  /\ chapters_written_so_far' = <<>>
  /\ exec_res' = <<>>
  /\ batch_i' = 1
  /\ cur_retry' = 0
  /\ last_call' = NoCall
  /\ last_reply' = NoReply
  /\ last_error' = NoError
  /\ hist' = [PrepHist("WriteChapters", hist) EXCEPT !.written_pos = <<>>]
  /\ UNCHANGED <<shared, keys, output>>

\* the fields of the item and of the node that prompt_template.format puts
\* into the prompt of one chapter
ChapterPrompt(item, written) ==
  [abstraction_name |-> item.name,
   chapter_num |-> item.chapter_num,
   full_chapter_listing |-> item.full_chapter_listing,
   previous_chapters_summary |-> written,
   file_context_str |-> item.files]

\* variant: the next item goes on from the attempt number of the last one
NextItemRetryCarried(retry) == retry

\* the attempt number at which the next item of the batch starts: a batch
\* node runs the retry loop of exec anew for every item
NextItemRetry(retry) == 0

\* one attempt of exec on the item at position batch_i; the prompt carries
\* the join of the accumulator
WriteChaptersAttempt(replies) ==
  LET item == prep_res.items[batch_i] IN
  /\ pc = At("WriteChapters", "exec")
  /\ last_call' = [stage |-> "WriteChapters", item |-> batch_i,
                   retry |-> cur_retry,
                   cache |-> CacheEligible(prep_res.use_cache, cur_retry),
                   previous_chapters |-> chapters_written_so_far,
                   prompt |-> ChapterPrompt(item, chapters_written_so_far)]
  /\ \E reply \in replies :
       /\ last_reply' = reply
       /\ last_error' = [err |-> IF reply.kind = "transport"
                                 THEN "TransportError" ELSE "none",
                         missing |-> {}]
       /\ IF reply.kind = "transport"
          THEN /\ hist' = [hist EXCEPT !.attempts = @ + 1,
                                       !.failKinds = @ \cup {reply.kind}]
               /\ IF cur_retry = MaxRetries("WriteChapters") - 1
                  THEN pc' = At("WriteChapters", "aborted")
                       /\ cur_retry' = cur_retry
                  ELSE pc' = pc /\ cur_retry' = cur_retry + 1
               /\ UNCHANGED <<chapters_written_so_far, exec_res, batch_i>>
          ELSE LET chapter_content ==
                     NormalizeHeading(reply.text, item.chapter_num, item.name)
               IN
               /\ chapters_written_so_far' =
                    AppendChapter(chapters_written_so_far, chapter_content)
               /\ exec_res' = Append(exec_res, chapter_content)
               /\ IF batch_i = Len(prep_res.items)
                  THEN /\ pc' = At("WriteChapters", "post")
                       /\ UNCHANGED <<batch_i, cur_retry>>
                       /\ hist' = [hist EXCEPT
                            !.attempts = @ + 1,
                            !.written_pos = AppendChapter(@, batch_i)]
                  ELSE /\ pc' = pc
                       /\ batch_i' = batch_i + 1
                       /\ cur_retry' = NextItemRetry(cur_retry)
                       /\ hist' = [hist EXCEPT
                            !.attempts = 0, !.failKinds = {},
                            !.written_pos = AppendChapter(@, batch_i)]
  /\ UNCHANGED <<shared, keys, prep_res, output>>

WriteChaptersExec ==
  WriteChaptersAttempt(ChapterReplies(prep_res.items[batch_i].chapter_num,
                                      prep_res.items[batch_i].name))

\* variant: storing the chapters empties the chapter order
WithChaptersOrderEmptied(context, exec_res_list) ==
  [context EXCEPT !.chapters = exec_res_list, !.chapter_order = <<>>]

\* shared["chapters"] = exec_res_list
WithChapters(context, exec_res_list) ==
  [context EXCEPT !.chapters = exec_res_list]

\* post stores the list of results and deletes the accumulator
WriteChaptersPost ==
  /\ Post("WriteChapters", "chapters", WithChapters(shared, exec_res))
  /\ chapters_written_so_far' = <<>>
  /\ UNCHANGED <<prep_res, exec_res, cur_retry, batch_i, last_call,
                 last_reply, last_error, output>>

(***************************************************************************)
(* CombineTutorial                                                         *)
(***************************************************************************)
IndexFilename == <<"i", "n", "d", "e", "x", ".", "m", "d">>

api_doc_filename ==
  <<"a", "p", "i", "_", "r", "e", "f", "e", "r", "e", "n", "c", "e",
    ".", "m", "d">>

\* name.replace('"', "")
RECURSIVE DropQuotes(_)
DropQuotes(name) ==
  IF name = <<>> THEN <<>>
  ELSE IF Head(name) = "\"" THEN DropQuotes(Tail(name))
  ELSE <<Head(name)>> \o DropQuotes(Tail(name))

\* variant: the node ids are counted from 1
MermaidNodesFromOne(abstractions) ==
  [i \in 1..Len(abstractions) |->
     [id |-> i, label |-> DropQuotes(abstractions[i].name)]]

MermaidNodes(abstractions) ==
  [i \in 1..Len(abstractions) |->
     [id |-> i - 1, label |-> DropQuotes(abstractions[i].name)]]

MermaidEdges(details) ==
  [i \in 1..Len(details) |->
     [from |-> details[i].from, to |-> details[i].to,
      label |-> EdgeLabel(details[i].label)]]

\* the loop that builds the index links and chapter_files
RECURSIVE ChapterFiles(_, _, _, _)
ChapterFiles(i, chapter_order, abstractions, chapters_content) ==
  IF i > Len(chapter_order) THEN <<>>
  ELSE (IF ValidIndex(chapter_order[i], abstractions)
           /\ i <= Len(chapters_content)
        THEN <<[num |-> i,
                name |-> abstractions[chapter_order[i] + 1].name,
                filename |->
                  ChapterFilename(i, abstractions[chapter_order[i] + 1].name),
                content |-> WithFooter(chapters_content[i])]>>
        ELSE <<>>)
       \o ChapterFiles(i + 1, chapter_order, abstractions, chapters_content)

\* variant: the reference document is always linked
HasApiDocAlways(api_documentation_md) == TRUE

\* api_documentation_md and api_documentation_md.strip()
HasApiDoc(api_documentation_md) ==
  api_documentation_md # <<>> /\ Strip(api_documentation_md) # <<>>

CombineTutorialPrep ==
  LET chapter_files == ChapterFiles(1, shared.chapter_order,
                                    shared.abstractions, shared.chapters)
  IN
  /\ Prep("CombineTutorial",
          [index_content |->
             [summary |-> shared.relationships.summary,
              api_link |-> HasApiDoc(shared.api_documentation_md),
              nodes |-> MermaidNodes(shared.abstractions),
              edges |-> MermaidEdges(shared.relationships.details),
              links |-> [i \in 1..Len(chapter_files) |->
                           [num |-> chapter_files[i].num,
                            name |-> chapter_files[i].name,
                            filename |-> chapter_files[i].filename]]],
           chapter_files |-> chapter_files,
           api_documentation_md |-> shared.api_documentation_md,
           api_doc_filename |->
             IF HasApiDoc(shared.api_documentation_md)
             THEN api_doc_filename ELSE <<>>,
           use_cache |-> shared.use_cache])
  /\ hist' = PrepHist("CombineTutorial", hist)
  /\ UNCHANGED <<shared, keys, exec_res, chapters_written_so_far, batch_i, output>>

\* exec writes index.md, then the reference document, then the chapters
CombineTutorialExec ==
  /\ pc = At("CombineTutorial", "exec")
  /\ output' =
       <<[filename |-> IndexFilename, kind |-> "index"]>>
       \o (IF prep_res.api_doc_filename # <<>>
              /\ prep_res.api_documentation_md # <<>>
           THEN <<[filename |-> prep_res.api_doc_filename, kind |-> "api"]>>
           ELSE <<>>)
       \o [i \in 1..Len(prep_res.chapter_files) |->
             [filename |-> prep_res.chapter_files[i].filename,
              kind |-> "chapter"]]
  /\ exec_res' = "output_path"
  /\ pc' = At("CombineTutorial", "post")
  /\ hist' = [hist EXCEPT !.attempts = @ + 1]
  /\ UNCHANGED <<shared, keys, prep_res, cur_retry, chapters_written_so_far,
                 batch_i, last_call, last_reply, last_error>>

CombineTutorialPost ==
  /\ Post("CombineTutorial", "final_output_dir",
          [shared EXCEPT !.final_output_dir = exec_res])
  /\ UNCHANGED <<prep_res, exec_res, cur_retry, chapters_written_so_far,
                 batch_i, last_call, last_reply, last_error, output>>

Next ==
  \/ FetchRepoPrep \/ FetchRepoExec \/ FetchRepoPost
  \/ AnalyzeFastAPIEndpointsPrep \/ AnalyzeFastAPIEndpointsExec
  \/ AnalyzeFastAPIEndpointsPost
  \/ GenerateAPIDocumentationPrep \/ GenerateAPIDocumentationExec
  \/ GenerateAPIDocumentationPost
  \/ IdentifyAbstractionsPrep \/ IdentifyAbstractionsExec
  \/ IdentifyAbstractionsPost
  \/ AnalyzeAPICallsPrep \/ AnalyzeAPICallsExec \/ AnalyzeAPICallsPost
  \/ AnalyzeRelationshipsPrep \/ AnalyzeRelationshipsExec
  \/ AnalyzeRelationshipsPost
  \/ OrderChaptersPrep \/ OrderChaptersExec \/ OrderChaptersPost
  \/ WriteChaptersPrep \/ WriteChaptersExec \/ WriteChaptersPost
  \/ CombineTutorialPrep \/ CombineTutorialExec \/ CombineTutorialPost

Spec == Init /\ [][Next]_vars

(***************************************************************************)
(* Properties of the pipeline.                                             *)
(***************************************************************************)
RetryStages ==
  {"IdentifyAbstractions", "AnalyzeRelationships", "OrderChapters",
   "WriteChapters"}

Aborted == pc.phase = "aborted"

\* the context keys some node's post stores
StageKeys ==
  {"files", "fastapi_endpoint_analysis", "api_documentation_md",
   "abstractions", "api_call_analysis", "relationships", "chapter_order",
   "chapters", "final_output_dir"}

WritesOf(key) == {i \in 1..Len(hist.writes) : hist.writes[i].key = key}

\* C1: a retry-configured stage (or chapter item) makes at most 5 exec
\* attempts; while it is executing, every attempt so far has failed and
\* fewer than 5 were made; when it aborts, exactly 5 attempts failed, no
\* later stage has started or stored anything, no file is written, and the
\* aborted run takes no further step.
C1_RetryBudgetThenAbort ==
  /\ [](/\ pc.stage \in RetryStages => hist.attempts <= 5
        /\ (pc.stage \in RetryStages /\ pc.phase = "exec") =>
             (hist.attempts = cur_retry /\ cur_retry < 5)
        /\ (Aborted /\ pc.stage \in RetryStages) =>
             /\ hist.attempts = 5
             /\ hist.started[Len(hist.started)] = pc.stage
             /\ \A i \in 1..Len(hist.writes) :
                  StageIndex(hist.writes[i].stage) < StageIndex(pc.stage)
             /\ output = <<>>
             /\ "final_output_dir" \notin keys)
  /\ [][~Aborted]_vars

C1_Witness ==
  /\ pc = At("OrderChapters", "aborted")
  /\ hist.attempts = 5
  /\ "relationships" \in keys

\* C2: in every generator call of the abstraction, relationship,
\* chapter-order and chapter-writing stages the cache flag is set only on
\* attempt 0 and only when use_cache is on; a retry never sets it.
C2_CacheOnlyOnFirstAttempt ==
  last_call.stage \in RetryStages =>
    /\ last_call.cache => (last_call.retry = 0 /\ shared.use_cache)
    /\ last_call.retry >= 1 => ~last_call.cache

C2_Witness ==
  /\ last_call.stage = "WriteChapters"
  /\ last_call.retry >= 1
  /\ shared.use_cache
  /\ ~last_call.cache

\* the reply defects the claim lists, read off the reply itself
C3_OutOfRange(y, bound) == y.t = "int" /\ (y.v < 0 \/ y.v >= bound)

C3_InvalidReply(stage, reply, pr) ==
  /\ reply.kind = "text"
  /\ stage \in {"IdentifyAbstractions", "AnalyzeRelationships", "OrderChapters"}
  /\ \/ reply.fence = "none"
     \/ reply.yaml.t = "YAMLError"
     \/ /\ stage = "IdentifyAbstractions"
        /\ \/ reply.yaml.t # "list"
           \/ \E i \in 1..Len(reply.yaml.items) :
                \E j \in 1..Len(reply.yaml.items[i].d["file_indices"].items) :
                  C3_OutOfRange(reply.yaml.items[i].d["file_indices"].items[j],
                                pr.file_count)
     \/ /\ stage = "AnalyzeRelationships"
        /\ \/ reply.yaml.t # "dict"
           \/ \E i \in 1..Len(reply.yaml.d["relationships"].items) :
                LET rel == reply.yaml.d["relationships"].items[i].d IN
                \/ C3_OutOfRange(rel["from_abstraction"], pr.num_abstractions)
                \/ C3_OutOfRange(rel["to_abstraction"], pr.num_abstractions)
     \/ /\ stage = "OrderChapters"
        /\ \/ reply.yaml.t # "list"
           \/ \E i \in 1..Len(reply.yaml.items) :
                \/ C3_OutOfRange(reply.yaml.items[i], pr.num_abstractions)
                \/ \E j \in 1..Len(reply.yaml.items) :
                     i # j /\ reply.yaml.items[i] = reply.yaml.items[j]

\* C3: within a retry stage or chapter item, an attempt whose generator call
\* failed and an attempt whose reply is invalid (no fence, unparsable, wrong
\* top-level shape, out-of-range or duplicate index) both consume one
\* attempt of the same counter: the next attempt follows while fewer than 5
\* were made, the run aborts at the fifth; after k failures of any kind the
\* counter stands at k.
C3_FailuresShareOneBudget ==
  /\ []((pc.stage \in RetryStages /\ pc.phase = "exec") =>
          (cur_retry = hist.attempts /\ cur_retry <= 4))
  /\ [][(/\ pc.stage \in RetryStages
         /\ pc.phase = "exec"
         /\ \/ last_reply'.kind = "transport"
            \/ C3_InvalidReply(pc.stage, last_reply', prep_res))
        => IF cur_retry < 4
           THEN pc' = pc /\ cur_retry' = cur_retry + 1 /\ exec_res' = exec_res
           ELSE pc' = At(pc.stage, "aborted")]_vars

C3_Witness ==
  /\ pc = At("IdentifyAbstractions", "exec")
  /\ cur_retry = 3
  /\ hist.failKinds = {"transport", "text"}
  /\ C3_InvalidReply("IdentifyAbstractions", last_reply, prep_res)

\* the order in which the claim names the stages
C4_ClaimedOrder ==
  <<"FetchRepo", "IdentifyAbstractions", "AnalyzeRelationships",
    "OrderChapters", "WriteChapters", "CombineTutorial">>

IsClaimed(stage) == stage \in Range(C4_ClaimedOrder)

\* stages start in the wired order, each after its predecessor's post
C4_LinearOrder ==
  /\ Len(hist.started) <= Len(StageOrder)
  /\ hist.started = SubSeq(StageOrder, 1, Len(hist.started))
  /\ LET claimed == SelectSeq(hist.started, IsClaimed)
     IN claimed = SubSeq(C4_ClaimedOrder, 1, Len(claimed))
  /\ \A i \in 1..(Len(hist.started) - 1) :
       \E j \in 1..Len(hist.writes) :
         hist.writes[j].stage = hist.started[i] /\ hist.writes[j].phase = "post"

\* C4 as stated: linear order, and every key a stage after the first reads
\* in prep had been written by an earlier post.
C4_Original ==
  /\ C4_LinearOrder
  /\ hist.readStage \notin {"none", "FetchRepo"} =>
       hist.readKeys \subseteq hist.finalKeys

\* C4 amended: linear order; every stage-produced key read in prep had been
\* written by an earlier post; the other keys read are run inputs, or
\* project_name, which FetchRepo's prep stores when it is not supplied.
C4_ReadsFollowWrites ==
  /\ C4_LinearOrder
  /\ (hist.readKeys \cap StageKeys) \subseteq hist.finalKeys
  /\ hist.readKeys \subseteq hist.finalKeys \cup InputKeys \cup {"project_name"}
  /\ hist.readStage \notin {"none", "FetchRepo"} => "project_name" \in keys

C4_Witness ==
  /\ hist.readStage = "CombineTutorial"
  /\ pc = At("CombineTutorial", "exec")
  /\ {"chapters", "chapter_order"} \subseteq hist.readKeys \cap hist.finalKeys
  /\ \E i \in 1..Len(hist.writes) : hist.writes[i].phase = "prep"

C6_ChaptersStoredOnlyByPost ==
  /\ (pc.stage \in Stages /\ StageIndex(pc.stage) <= StageIndex("WriteChapters"))
       => "chapters" \notin keys
  /\ Cardinality(WritesOf("chapters")) <= 1
  /\ "chapters" \in keys =>
       /\ \A i \in WritesOf("chapters") :
            hist.writes[i].stage = "WriteChapters"
            /\ hist.writes[i].phase = "post"
       /\ Cardinality(WritesOf("chapters")) = 1
       /\ Len(shared.chapters) = Len(shared.chapter_order)
       /\ hist.written_pos = [i \in 1..Len(shared.chapter_order) |-> i]
       /\ \A i \in 1..Len(shared.chapters) :
            StartsWith(Strip(shared.chapters[i]), HeadingPrefix(i))

C6_Witness ==
  /\ pc = At("WriteChapters", "aborted")
  /\ batch_i = 2
  /\ Len(exec_res) = 1
  /\ "chapters" \notin keys

StoredKey(stage) ==
  CASE stage = "FetchRepo" -> "files"
    [] stage = "AnalyzeFastAPIEndpoints" -> "fastapi_endpoint_analysis"
    [] stage = "GenerateAPIDocumentation" -> "api_documentation_md"
    [] stage = "IdentifyAbstractions" -> "abstractions"
    [] stage = "AnalyzeAPICalls" -> "api_call_analysis"
    [] stage = "AnalyzeRelationships" -> "relationships"
    [] stage = "OrderChapters" -> "chapter_order"
    [] stage = "WriteChapters" -> "chapters"
    [] OTHER -> "final_output_dir"

\* keys and history of a run (project_name supplied) whose first k nodes
\* have finished and whose next node has made all attempts but the last
KeysAfter(k) ==
  InputKeys \cup {"project_name"} \cup {StoredKey(StageOrder[i]) : i \in 1..k}

HistAfter(k) ==
  [attempts |-> MaxRetries(StageOrder[k + 1]) - 1,
   failKinds |-> {"transport"},
   started |-> SubSeq(StageOrder, 1, k + 1),
   swallowed |-> FALSE,
   writes |-> [i \in 1..k |-> [key |-> StoredKey(StageOrder[i]),
                               stage |-> StageOrder[i],
                               phase |-> "post", fresh |-> TRUE]],
   readStage |-> StageOrder[k + 1],
   readKeys |-> RequiredKeys(StageOrder[k + 1])
                \cup (OptionalKeys(StageOrder[k + 1]) \cap KeysAfter(k)),
   finalKeys |-> {StoredKey(StageOrder[i]) : i \in 1..k},
   written_pos |-> <<>>]

SharedWith(files, abstractions, relationships) ==
  [project_name |-> "proj", use_cache |-> TRUE, files |-> files,
   fastapi_endpoint_analysis |-> <<>>, api_documentation_md |-> <<>>,
   abstractions |-> abstractions, api_call_analysis |-> <<>>,
   relationships |-> relationships, chapter_order |-> <<>>,
   chapters |-> <<>>, final_output_dir |-> ""]

\* sequences over S of length at most n
SeqsUpTo(S, n) == UNION {[1..m -> S] : m \in 0..n}

\* index entries of every accepted and rejected form
IndexEntries(bound) ==
  {YInt(v) : v \in (0 - 1)..bound}
  \cup {YStr(Comment(v)) : v \in 0..bound}
  \cup {YBool(TRUE), YBool(FALSE), YNull, YFloat(<<"1", ".", "0">>),
        YStr(<<" ", "1", " ">>), YStr(<<"a">>), YStr(<<"x", "#", "1">>),
        YStr(<<"-", "1", "#">>)}

AbsItemWith(entries) ==
  YDict([k \in AbstractionKeys |->
    CASE k = "name" -> YStr(NameAt(0))
      [] k = "description" -> YStr(<<"d">>)
      [] OTHER -> YList(entries)])

RichAbsReplies(fc) ==
  AbsReplies(fc)
  \cup {TextReply("yaml", YList(<<AbsItemWith(entries)>>)) :
          entries \in SeqsUpTo(IndexEntries(fc), MaxEntries)}
  \cup {TextReply("yaml", YList(<<AbsItemWith(<<YInt(0), YInt(1 % fc)>>),
                                  AbsItemWith(<<YInt(1 % fc), YInt(fc - 1)>>)>>))}

InitAbstractions ==
  /\ pc = At("IdentifyAbstractions", "exec")
  /\ \E n \in 1..(MaxFiles + 1) :
       /\ shared = SharedWith([i \in 1..n |-> FileAt(i - 1)], <<>>,
                              [summary |-> <<>>, details |-> <<>>])
       /\ prep_res = [file_count |-> n, use_cache |-> TRUE]
  /\ keys = KeysAfter(3)
  /\ exec_res = <<>>
  /\ cur_retry = MaxRetries("IdentifyAbstractions") - 1
  /\ chapters_written_so_far = <<>>
  /\ batch_i = 0
  /\ last_call = [stage |-> "IdentifyAbstractions", item |-> 0,
                  retry |-> MaxRetries("IdentifyAbstractions") - 2,
                  cache |-> FALSE]
  /\ last_reply = TransportFailure
  /\ last_error = [err |-> "TransportError", missing |-> {}]
  /\ output = <<>>
  /\ hist = HistAfter(3)

IdentifyAbstractionsExecRich ==
  IdentifyAbstractionsAttempt(RichAbsReplies(prep_res.file_count))

NextAbstractions == IdentifyAbstractionsExecRich \/ IdentifyAbstractionsPost

SpecAbstractions == InitAbstractions /\ [][NextAbstractions]_vars

OrderEntries(n) ==
  {YInt(v) : v \in (0 - 1)..n}
  \cup {YStr(Comment(v)) : v \in 0..(n - 1)}
  \cup {YBool(TRUE), YNull, YStr(<<" ", "1", " ">>), YStr(<<"a">>)}

\* order replies: every list of at most n index entries of any form, and
\* every list of n + 1 in-range integers
RichOrderReplies(n) ==
  OrderReplies(n)
  \cup {TextReply("yaml", YList(entries)) :
          entries \in SeqsUpTo(OrderEntries(n), n)}
  \cup {TextReply("yaml", YList(entries)) :
          entries \in [1..(n + 1) -> {YInt(v) : v \in 0..(n - 1)}]}

InitOrder ==
  /\ pc = At("OrderChapters", "exec")
  /\ \E n \in 0..(MaxAbs + 1) :
       /\ shared = SharedWith(
            <<FileAt(0)>>,
            IdentifyAbstractionsValidate(TextReply("yaml", AbsListY(n, 1)),
                                         1).value,
            [summary |-> <<"s">>, details |-> <<>>])
       /\ prep_res = [num_abstractions |-> n, use_cache |-> TRUE]
  /\ keys = KeysAfter(6)
  /\ exec_res = <<>>
  /\ cur_retry = MaxRetries("OrderChapters") - 1
  /\ chapters_written_so_far = <<>>
  /\ batch_i = 0
  /\ last_call = [stage |-> "OrderChapters", item |-> 0,
                  retry |-> MaxRetries("OrderChapters") - 2, cache |-> FALSE]
  /\ last_reply = TransportFailure
  /\ last_error = [err |-> "TransportError", missing |-> {}]
  /\ output = <<>>
  /\ hist = HistAfter(6)

OrderChaptersExecRich ==
  OrderChaptersAttempt(RichOrderReplies(prep_res.num_abstractions))

NextOrder == OrderChaptersExecRich \/ OrderChaptersPost

SpecOrder == InitOrder /\ [][NextOrder]_vars

(***************************************************************************)
(* Properties of the validators.                                           *)
(***************************************************************************)
\* the indices named by a list of entries that all parse
NamedIndices(entries) ==
  {ParseIndexEntry(entries[i]).v : i \in 1..Len(entries)}

\* C8: every abstraction stored in the context has a files list of
\* integers in [0, fileCount), strictly ascending (so without duplicates),
\* holding exactly the indices the accepted reply listed for it.
C8_StoredFilesSortedUnique ==
  "abstractions" \in keys =>
    /\ Len(shared.abstractions) = Len(last_reply.yaml.items)
    /\ \A i \in 1..Len(shared.abstractions) :
         LET files == shared.abstractions[i].files IN
         /\ \A j \in 1..Len(files) :
              files[j] \in Int /\ 0 <= files[j] /\ files[j] < Len(shared.files)
         /\ \A j \in 1..Len(files) : \A k \in 1..Len(files) :
              j < k => files[j] < files[k]
         /\ Range(files) =
              NamedIndices(last_reply.yaml.items[i].d["file_indices"].items)

C8_Witness ==
  /\ "abstractions" \in keys
  /\ Len(shared.files) = 3
  /\ Len(shared.abstractions) = 1
  /\ last_reply.yaml.items[1].d["file_indices"].items =
       <<YStr(Comment(1)), YInt(0), YInt(1)>>
  /\ shared.abstractions[1].files = <<0, 1>>

\* a relationship reply with an out-of-range index on either side
C9_OutOfRangeReply(reply, n) ==
  /\ reply.kind = "text" /\ reply.fence = "yaml"
  /\ reply.yaml.t = "dict"
  /\ \E i \in 1..Len(reply.yaml.d["relationships"].items) :
       LET rel == reply.yaml.d["relationships"].items[i].d IN
       \E side \in {"from_abstraction", "to_abstraction"} :
         /\ ParseRelIndex(rel[side]).ok
         /\ ~(ParseRelIndex(rel[side]).v \in 0..(n - 1))

C9_NonStringLabel(reply) ==
  /\ reply.kind = "text" /\ reply.fence = "yaml"
  /\ reply.yaml.t = "dict"
  /\ \E i \in 1..Len(reply.yaml.d["relationships"].items) :
       reply.yaml.d["relationships"].items[i].d["label"].t # "str"

\* C9: every stored relationship has from and to in [0, abstractionCount);
\* an attempt whose reply has an out-of-range index on either side, or a
\* label that is not a string, fails, and at that point nothing of the
\* relationships is stored and no chapter has been generated or written.
C9_RelationshipIndicesInRange ==
  /\ "relationships" \in keys =>
       \A i \in 1..Len(shared.relationships.details) :
         LET rel == shared.relationships.details[i] IN
         /\ rel.from \in 0..(Len(shared.abstractions) - 1)
         /\ rel.to \in 0..(Len(shared.abstractions) - 1)
  /\ (/\ pc.stage = "AnalyzeRelationships"
      /\ \/ C9_OutOfRangeReply(last_reply, Len(shared.abstractions))
         \/ C9_NonStringLabel(last_reply)) =>
       /\ pc.phase \in {"exec", "aborted"}
       /\ last_error.err # "none"
       /\ "relationships" \notin keys
       /\ "chapters" \notin keys
       /\ chapters_written_so_far = <<>>
       /\ output = <<>>
       /\ \A i \in 1..Len(hist.started) : hist.started[i] # "WriteChapters"

C9_Witness ==
  /\ pc = At("AnalyzeRelationships", "exec")
  /\ Len(shared.abstractions) = 2
  /\ cur_retry >= 1
  /\ last_reply.kind = "text" /\ last_reply.yaml.t = "dict"
  /\ last_reply.yaml.d["relationships"].items[1].d["from_abstraction"] = YInt(9)
  /\ last_error.err = "Could not parse indices from relationship"

IsPermutation(order, n) ==
  /\ Len(order) = n
  /\ \A k \in 0..(n - 1) : Cardinality({i \in 1..Len(order) : order[i] = k}) = 1

\* the indices of [0, n) that no entry of the reply names
C10_Missing(reply, n) ==
  (0..(n - 1)) \ {ParseIndexEntry(reply.yaml.items[i]).v :
                    i \in {j \in 1..Len(reply.yaml.items) :
                             ParseIndexEntry(reply.yaml.items[j]).ok}}

C10_Omits(reply, n) ==
  /\ reply.kind = "text" /\ reply.fence = "yaml"
  /\ reply.yaml.t = "list"
  /\ C10_Missing(reply, n) # {}

\* every entry names an in-range index and no index is named twice
C10_EntriesValidDistinct(reply, n) ==
  /\ \A i \in 1..Len(reply.yaml.items) :
       /\ ParseIndexEntry(reply.yaml.items[i]).ok
       /\ ParseIndexEntry(reply.yaml.items[i]).v \in 0..(n - 1)
  /\ \A i \in 1..Len(reply.yaml.items) : \A j \in 1..Len(reply.yaml.items) :
       i # j => ParseIndexEntry(reply.yaml.items[i]).v
                  # ParseIndexEntry(reply.yaml.items[j]).v

C10_StoredIsPermutation ==
  "chapter_order" \in keys =>
    IsPermutation(shared.chapter_order, Len(shared.abstractions))

\* C10 as stated: the stored order is a permutation of [0, n), and every
\* reply that omits an index is rejected with the length-mismatch failure
\* naming the missing indices.
C10_Original ==
  /\ C10_StoredIsPermutation
  /\ (pc.stage = "OrderChapters"
      /\ C10_Omits(last_reply, Len(shared.abstractions))) =>
       /\ pc.phase # "post"
       /\ last_error.err = "Ordered list length does not match"
       /\ last_error.missing = C10_Missing(last_reply, Len(shared.abstractions))

\* C10 amended: the stored order is a permutation of [0, n); every reply
\* that omits an index is rejected; the failure is the length mismatch
\* naming the missing indices when all entries of the reply are distinct
\* in-range indices, and otherwise the failure raised at the first entry
\* that is unparsable, out of range or repeated.
C10_OrderIsPermutation ==
  /\ C10_StoredIsPermutation
  /\ (pc.stage = "OrderChapters"
      /\ C10_Omits(last_reply, Len(shared.abstractions))) =>
       /\ pc.phase # "post"
       /\ IF C10_EntriesValidDistinct(last_reply, Len(shared.abstractions))
          THEN /\ last_error.err = "Ordered list length does not match"
               /\ last_error.missing =
                    C10_Missing(last_reply, Len(shared.abstractions))
          ELSE last_error.err = "Could not parse index from ordered list entry"

C10_Witness ==
  /\ pc = At("OrderChapters", "aborted")
  /\ Len(shared.abstractions) = 3
  /\ last_reply.kind = "text" /\ last_reply.yaml.t = "list"
  /\ Len(last_reply.yaml.items) = 2
  /\ last_error.err = "Ordered list length does not match"
  /\ Cardinality(last_error.missing) = 1

(***************************************************************************)
(* What a rejected reply is reported as.                                   *)
(***************************************************************************)
\* an abstraction reply of well-formed items whose index entries all parse,
\* up to an entry that names an index outside [0, file_count)
C11_OutOfRangeFileIndex(reply, file_count) ==
  /\ reply.kind = "text" /\ reply.fence = "yaml"
  /\ reply.yaml.t = "list"
  /\ \A i \in 1..Len(reply.yaml.items) :
       /\ reply.yaml.items[i].t = "dict"
       /\ reply.yaml.items[i].d["file_indices"].t = "list"
       /\ \A j \in 1..Len(reply.yaml.items[i].d["file_indices"].items) :
            ParseIndexEntry(reply.yaml.items[i].d["file_indices"].items[j]).ok
  /\ \E i \in 1..Len(reply.yaml.items) :
       \E j \in 1..Len(reply.yaml.items[i].d["file_indices"].items) :
         ParseIndexEntry(reply.yaml.items[i].d["file_indices"].items[j]).v
           \notin 0..(file_count - 1)

\* a chapter-order reply of in-range indices in which one index comes twice
C11_RepeatedOrderIndex(reply, num_abstractions) ==
  /\ reply.kind = "text" /\ reply.fence = "yaml"
  /\ reply.yaml.t = "list"
  /\ \A i \in 1..Len(reply.yaml.items) :
       /\ ParseIndexEntry(reply.yaml.items[i]).ok
       /\ ParseIndexEntry(reply.yaml.items[i]).v \in 0..(num_abstractions - 1)
  /\ \E i \in 1..Len(reply.yaml.items) : \E j \in 1..Len(reply.yaml.items) :
       /\ i # j
       /\ ParseIndexEntry(reply.yaml.items[i]).v
            = ParseIndexEntry(reply.yaml.items[j]).v

\* C11 as stated: an abstraction reply with an out-of-range file index is
\* reported by the failure that cites the maximum valid index, and a
\* chapter-order reply that repeats an index is reported by the duplicate
\* index failure; neither is reported as a failure to parse.
C11_Original ==
  /\ (/\ pc.stage = "IdentifyAbstractions" /\ pc.phase # "prep"
      /\ C11_OutOfRangeFileIndex(last_reply, Len(shared.files))) =>
       last_error.err = "Invalid file index"
  /\ (/\ pc.stage = "OrderChapters" /\ pc.phase # "prep"
      /\ C11_RepeatedOrderIndex(last_reply, Len(shared.abstractions))) =>
       last_error.err = "Duplicate index"

(***************************************************************************)
(* Specification of CombineTutorial alone.  It starts in the state of a    *)
(* run whose earlier nodes have all finished at their first attempt, with  *)
(* one abstraction, one chapter and one relationship whose label is drawn  *)
(* from a pool of labels around the length at which the diagram cuts.      *)
(***************************************************************************)
\* history of a run whose first k nodes have finished, each at its first
\* attempt, and whose next node has not started
HistFinished(k) ==
  [attempts |-> 1,
   failKinds |-> {},
   started |-> SubSeq(StageOrder, 1, k),
   swallowed |-> FALSE,
   writes |-> [i \in 1..k |-> [key |-> StoredKey(StageOrder[i]),
                               stage |-> StageOrder[i],
                               phase |-> "post", fresh |-> TRUE]],
   readStage |-> StageOrder[k],
   readKeys |-> RequiredKeys(StageOrder[k])
                \cup (OptionalKeys(StageOrder[k]) \cap KeysAfter(k - 1)),
   finalKeys |-> {StoredKey(StageOrder[i]) : i \in 1..(k - 1)},
   written_pos |-> <<>>]

\* a label of the given length made of the letter l, with c at position k
LabelOf(len, c, k) == [i \in 1..len |-> IF i = k THEN c ELSE "l"]

\* labels of every length up to MaxLabel: plain, or with a double quote, a
\* newline or an apostrophe at either end, or quoted at both ends, or made
\* of quotes only
Labels ==
  UNION {{LabelOf(len, c, k) : c \in {"l", "\"", "\n", "'"}, k \in {1, len}} :
           len \in 0..MaxLabel}
  \cup {[i \in 1..len |-> IF i \in {1, len} THEN "\"" ELSE "l"] :
          len \in 2..MaxLabel}
  \cup {[i \in 1..len |-> "\""] : len \in 1..3}

\* the state in which WriteChapters.post has stored one chapter per entry of
\* chapter_order, each generated at the first attempt without a heading
AtCombineTutorial(abstractions, chapter_order, details) ==
  LET n == Len(chapter_order)
      items == ItemsToProcess(1, chapter_order, abstractions)
      chapters == [i \in 1..n |->
                     NormalizeHeading(<<"B">>, i, items[i].name)]
  IN
  /\ pc = At("CombineTutorial", "prep")
  /\ shared = [SharedWith(<<FileAt(0)>>, abstractions,
                          [summary |-> <<"s">>, details |-> details])
                 EXCEPT !.chapter_order = chapter_order,
                        !.chapters = chapters]
  /\ keys = KeysAfter(8)
  /\ prep_res = [items |-> items, use_cache |-> TRUE]
  /\ exec_res = chapters
  /\ cur_retry = 0
  /\ chapters_written_so_far = <<>>
  /\ batch_i = n
  /\ last_call = [stage |-> "WriteChapters", item |-> n, retry |-> 0,
                  cache |-> TRUE,
                  previous_chapters |-> SubSeq(chapters, 1, n - 1),
                  prompt |-> ChapterPrompt(items[n], SubSeq(chapters, 1, n - 1))]
  /\ last_reply = ChapterReply(<<"B">>)
  /\ last_error = NoError
  /\ output = <<>>
  /\ hist = [HistFinished(8) EXCEPT !.written_pos = [i \in 1..n |-> i]]

InitLabels ==
  \E label \in Labels :
    AtCombineTutorial(
      IdentifyAbstractionsValidate(TextReply("yaml", AbsListY(1, 1)), 1).value,
      <<0>>, <<[from |-> 0, to |-> 0, label |-> label]>>)

NextLabels ==
  CombineTutorialPrep \/ CombineTutorialExec \/ CombineTutorialPost

SpecLabels == InitLabels /\ [][NextLabels]_vars

(***************************************************************************)
(* Properties of the documents built by CombineTutorial.                   *)
(***************************************************************************)
C12_NotQuote(c) == c # "\""

\* the label without its double quotes and with a space for every newline
C12_Stripped(label) ==
  LET kept == SelectSeq(label, C12_NotQuote) IN
  [i \in 1..Len(kept) |-> IF kept[i] = "\n" THEN " " ELSE kept[i]]

\* C12: every edge label of the diagram has at most 30 characters, none of
\* them a double quote or a newline; a label longer than 30 after the
\* stripping is emitted as its first 27 characters followed by "...", and a
\* label of at most 30 characters is emitted as stripped.
C12_EdgeLabelWithinMax ==
  (pc.stage \in {"CombineTutorial", "End"} /\ pc.phase \in {"exec", "post", "done"}) =>
    /\ Len(prep_res.index_content.edges) = Len(shared.relationships.details)
    /\ \A i \in 1..Len(shared.relationships.details) :
         LET stripped == C12_Stripped(shared.relationships.details[i].label)
             emitted == prep_res.index_content.edges[i].label
         IN
         /\ Len(emitted) <= 30
         /\ \A j \in 1..Len(emitted) : emitted[j] \notin {"\"", "\n"}
         /\ Len(stripped) <= 30 => emitted = stripped
         /\ Len(stripped) > 30 =>
              /\ Len(emitted) = 30
              /\ SubSeq(emitted, 1, 27) = SubSeq(stripped, 1, 27)
              /\ SubSeq(emitted, 28, 30) = <<".", ".", ".">>

C12_Witness ==
  /\ pc = At("End", "done")
  /\ Len(shared.relationships.details[1].label) = 33
  /\ shared.relationships.details[1].label[1] = "\""
  /\ shared.relationships.details[1].label[33] = "\""
  /\ Len(prep_res.index_content.edges[1].label) = 30
  /\ SubSeq(prep_res.index_content.edges[1].label, 28, 30) = <<".", ".", ".">>

(***************************************************************************)
(* Specification of WriteChapters and CombineTutorial alone.  It starts    *)
(* where OrderChapters has finished, with one abstraction of any name of   *)
(* at most MaxName characters or two abstractions of short names in either *)
(* order, or where WriteChapters has finished MaxChapters chapters.        *)
(***************************************************************************)
\* longest abstraction name drawn
MaxName == 3

\* number of chapters of the long tutorial
MaxChapters == 10

\* an upper-case and a lower-case letter, a digit, and three characters
\* that are not alphanumeric
NameChars == {"C", "z", "9", "!", " ", "_"}

Names == SeqsUpTo(NameChars, MaxName)

\* pairs of names, among them pairs that sanitize identically
NamePairs ==
  {<<NameAt(0), NameAt(1)>>}
  \cup (SeqsUpTo(NameChars, 1) \X SeqsUpTo(NameChars, 1))

\* validated abstractions of the given names
Named(names) ==
  [i \in 1..Len(names) |->
     [name |-> names[i], description |-> <<"d">>, files |-> <<0>>]]

\* the state in which OrderChapters.post has stored chapter_order, accepted
\* at the first attempt
AtWriteChapters(abstractions, chapter_order) ==
  /\ pc = At("WriteChapters", "prep")
  /\ shared = [SharedWith(<<FileAt(0)>>, abstractions,
                          [summary |-> <<"s">>, details |-> <<>>])
                 EXCEPT !.chapter_order = chapter_order]
  /\ keys = KeysAfter(7)
  /\ prep_res = [num_abstractions |-> Len(abstractions), use_cache |-> TRUE]
  /\ exec_res = chapter_order
  /\ cur_retry = 0
  /\ chapters_written_so_far = <<>>
  /\ batch_i = 0
  /\ last_call = [stage |-> "OrderChapters", item |-> 0, retry |-> 0,
                  cache |-> TRUE]
  /\ last_reply = TextReply("yaml", YList([i \in 1..Len(chapter_order) |->
                                             YInt(chapter_order[i])]))
  /\ last_error = NoError
  /\ output = <<>>
  /\ hist = HistFinished(7)

InitNames ==
  \/ \E name \in Names : AtWriteChapters(Named(<<name>>), <<0>>)
  \/ \E names \in NamePairs, chapter_order \in {<<0, 1>>, <<1, 0>>} :
       AtWriteChapters(Named(names), chapter_order)
  \/ AtCombineTutorial(Named([i \in 1..MaxChapters |-> NameAt(i - 1)]),
                       [i \in 1..MaxChapters |-> i - 1], <<>>)

NextNames ==
  \/ WriteChaptersPrep \/ WriteChaptersExec \/ WriteChaptersPost
  \/ CombineTutorialPrep \/ CombineTutorialExec \/ CombineTutorialPost

SpecNames == InitNames /\ [][NextNames]_vars

(***************************************************************************)
(* Properties of the chapter filenames.                                    *)
(***************************************************************************)
C13_Digit(d) == <<"0", "1", "2", "3", "4", "5", "6", "7", "8", "9">>[d + 1]

\* f is the two-digit position p, the separator, one character per character
\* of n (its lower case if alphanumeric, else the separator), and ".md"
C13_IsFilenameOf(f, p, n) ==
  /\ p < 100
  /\ Len(f) = 2 + 1 + Len(n) + 3
  /\ f[1] = C13_Digit(p \div 10)
  /\ f[2] = C13_Digit(p % 10)
  /\ f[3] = "_"
  /\ \A i \in 1..Len(n) :
       f[3 + i] =
         IF n[i] \in Digits \cup Range(LowerLetters) THEN n[i]
         ELSE IF \E k \in 1..26 : UpperLetters[k] = n[i]
              THEN LowerLetters[CHOOSE k \in 1..26 : UpperLetters[k] = n[i]]
              ELSE "_"
  /\ SubSeq(f, Len(n) + 4, Len(n) + 6) = <<".", "m", "d">>

\* the name of the abstraction placed at position p
C13_NameAtPosition(p) == shared.abstractions[shared.chapter_order[p] + 1].name

\* the chapters listed in the table of contents handed to every chapter item
C13_Listed ==
  IF pc.stage = "WriteChapters" /\ pc.phase \in {"exec", "post"}
  THEN UNION {Range(prep_res.items[k].full_chapter_listing) :
                k \in 1..Len(prep_res.items)}
  ELSE {}

\* the chapters linked from the index document and written to files
C13_Linked ==
  IF \/ pc.stage = "CombineTutorial" /\ pc.phase \in {"exec", "post"}
     \/ pc = At("End", "done")
  THEN Range(prep_res.index_content.links)
       \cup {[num |-> c.num, name |-> c.name, filename |-> c.filename] :
               c \in Range(prep_res.chapter_files)}
  ELSE {}

\* C13: the filename of the chapter at position p of abstraction name n is
\* p zero-padded to width 2, "_", n with every alphanumeric character
\* lower-cased and every other character replaced by one "_" (nothing
\* collapsed, nothing trimmed), and ".md"; this holds for the table of
\* contents of WriteChapters, for the index links and for the files written.
C13_FilenameRule ==
  /\ \A c \in C13_Listed \cup C13_Linked :
       /\ c.num \in 1..Len(shared.chapter_order)
       /\ c.name = C13_NameAtPosition(c.num)
       /\ C13_IsFilenameOf(c.filename, c.num, c.name)
  /\ \A i \in 1..Len(output) :
       output[i].kind = "chapter" =>
         \E c \in C13_Linked : output[i].filename = c.filename

\* a name of consecutive and trailing separators keeps each of them
C13_Witness ==
  /\ pc = At("End", "done")
  /\ shared.abstractions[1].name = <<"C", " ", "!">>
  /\ output[Len(output)] =
       [filename |-> <<"0", "1", "_", "c", "_", "_", ".", "m", "d">>,
        kind |-> "chapter"]

\* the part of a chapter's filename between the position prefix and ".md"
C14_Sanitized(c) == SubSeq(c.filename, 4, Len(c.filename) - 3)

C14_Front(name) == SubSeq(name, 1, Len(name) - 1)

C14_EndsInSeparated(name) == name # <<>> /\ ~IsAlnum(name[Len(name)])

C14_Cache(n) ==
  <<"0", C13_Digit(n), "_", "c", "a", "c", "h", "e", "_", ".", "m", "d">>

\* C14 as stated: "Cache!" and "Cache?" sanitize to "cache" and give
\* 01_cache.md and 02_cache.md, and a name ending in a non-alphanumeric
\* character sanitizes to the same string as the name without it.
C14_Original ==
  \A c \in C13_Listed \cup C13_Linked :
    /\ c.name \in {NameAt(0), NameAt(1)} /\ c.num \in 1..2 =>
         /\ C14_Sanitized(c) = <<"c", "a", "c", "h", "e">>
         /\ c.filename =
              <<"0", C13_Digit(c.num), "_", "c", "a", "c", "h", "e",
                ".", "m", "d">>
    /\ C14_EndsInSeparated(c.name) =>
         C14_Sanitized(c) = SafeName(C14_Front(c.name))

\* C14: "Cache!" and "Cache?" both sanitize to "cache_", so that at
\* positions 1 and 2 they get 01_cache_.md and 02_cache_.md; a name ending
\* in a non-alphanumeric character sanitizes to the sanitized name without
\* that character followed by one separator.
C14_TrailingSeparatorKept ==
  \A c \in C13_Listed \cup C13_Linked :
    /\ c.name \in {NameAt(0), NameAt(1)} /\ c.num \in 1..2 =>
         /\ C14_Sanitized(c) = <<"c", "a", "c", "h", "e", "_">>
         /\ c.filename = C14_Cache(c.num)
    /\ C14_EndsInSeparated(c.name) =>
         C14_Sanitized(c) = SafeName(C14_Front(c.name)) \o <<"_">>

C14_Witness ==
  /\ pc = At("End", "done")
  /\ Len(shared.abstractions) = 2
  /\ shared.abstractions[1].name = NameAt(0)
  /\ shared.abstractions[2].name = NameAt(1)
  /\ shared.chapter_order = <<0, 1>>
  /\ output[2] = [filename |-> C14_Cache(1), kind |-> "chapter"]
  /\ output[3] = [filename |-> C14_Cache(2), kind |-> "chapter"]

\* position and filename of every chapter of a collection
C15_Targets(chapters) == {<<c.num, c.filename>> : c \in chapters}

C15_Distinct(chapters) ==
  \A c, d \in chapters : c.num # d.num => c.filename # d.filename

\* the table of contents WriteChapters.prep computed, still held when
\* CombineTutorial.prep starts
C15_Contents ==
  UNION {Range(prep_res.items[k].full_chapter_listing) :
           k \in 1..Len(prep_res.items)}

C15_ChapterOutput == SelectSeq(output, LAMBDA f : f.kind = "chapter")

\* C15: for every position the filename in the table of contents computed
\* before chapter writing, the link target of the index document and the
\* name of the written chapter file are the same, and chapters at different
\* positions never have the same filename.
C15_OneFilenamePerPosition ==
  /\ [](/\ C15_Distinct(C13_Listed)
        /\ C15_Distinct(C13_Linked)
        /\ \A k \in 1..Len(C15_ChapterOutput) :
             /\ C15_ChapterOutput[k].filename =
                  prep_res.index_content.links[k].filename
             /\ \A j \in 1..Len(C15_ChapterOutput) :
                  j # k => C15_ChapterOutput[j].filename
                           # C15_ChapterOutput[k].filename
        /\ pc = At("End", "done") =>
             Len(C15_ChapterOutput) = Len(shared.chapter_order))
  /\ [][pc = At("CombineTutorial", "prep") /\ pc'.phase = "exec" =>
          /\ C15_Targets(C15_Contents)
               = C15_Targets(Range(prep_res'.index_content.links))
          /\ C15_Targets(C15_Contents)
               = C15_Targets(Range(prep_res'.chapter_files))]_vars

\* two names that sanitize identically, written in reversed order
C15_Witness ==
  /\ pc = At("End", "done")
  /\ Len(shared.abstractions) = 2
  /\ shared.abstractions[1].name = <<"!">>
  /\ shared.abstractions[2].name = <<" ">>
  /\ shared.chapter_order = <<1, 0>>
  /\ output[2].filename = <<"0", "1", "_", "_", ".", "m", "d">>
  /\ output[3].filename = <<"0", "2", "_", "_", ".", "m", "d">>

(***************************************************************************)
(* Specification of WriteChapters alone, with generated texts of every     *)
(* kind of first line.  It starts where OrderChapters has finished, with   *)
(* one or two abstractions.                                                *)
(***************************************************************************)
\* generated chapter texts: besides those of ChapterTexts, a heading with
\* another number, with the right number and another title, with a number
\* that continues the expected one, with no title, each of the first two
\* also after blank lines, and texts without a heading
RichChapterTexts(chapter_num, name) ==
  ChapterTexts(chapter_num, name)
  \cup {ActualHeading(chapter_num + 1, name) \o Body,
        ActualHeading(chapter_num, <<"X">>) \o Body,
        HeadingPrefix(chapter_num) \o <<"2", ":", " ">> \o name \o Body,
        HeadingPrefix(chapter_num) \o Body,
        <<"\n", "\n">> \o ActualHeading(chapter_num, name) \o Body,
        <<"\n", "\n">> \o ActualHeading(chapter_num + 1, name) \o Body,
        <<"\n", "B">>,
        <<>>}

RichChapterReplies(chapter_num, name) ==
  {[TransportFailure EXCEPT !.kind = "transport"]}
  \cup {ChapterReply(t) : t \in RichChapterTexts(chapter_num, name)}

InitHeadings ==
  \/ AtWriteChapters(Named(<<NameAt(0)>>), <<0>>)
  \/ \E chapter_order \in {<<0, 1>>, <<1, 0>>} :
       AtWriteChapters(Named(<<NameAt(0), NameAt(2)>>), chapter_order)

WriteChaptersExecRich ==
  WriteChaptersAttempt(RichChapterReplies(prep_res.items[batch_i].chapter_num,
                                          prep_res.items[batch_i].name))

NextHeadings ==
  WriteChaptersPrep \/ WriteChaptersExecRich \/ WriteChaptersPost

SpecHeadings == InitHeadings /\ [][NextHeadings]_vars

(***************************************************************************)
(* Properties of the stored chapter bodies.                                *)
(***************************************************************************)
\* the chapter bodies produced so far, by position
C16_Bodies ==
  IF pc.stage = "WriteChapters" /\ pc.phase \in {"exec", "post"}
  THEN exec_res
  ELSE IF "chapters" \in keys THEN shared.chapters ELSE <<>>

\* C16 as stated: whatever the generator replied, the chapter body kept for
\* position i begins with the line "# Chapter i: <name of the abstraction at
\* position i>", with exactly that number and title.
C16_Original ==
  \A i \in 1..Len(C16_Bodies) :
    FirstLine(C16_Bodies[i]) = ActualHeading(i, C13_NameAtPosition(i))

(***************************************************************************)
(* The structures the validators have seen and produced, as structures a   *)
(* validator can be fed.                                                   *)
(***************************************************************************)
YIntList(s) == YList([i \in 1..Len(s) |-> YInt(s[i])])

\* variant: the accepted entry is rebuilt from the stored fields
ItemAfterValidationRebuilt(item, files) ==
  YDict([k \in {"name", "description", "files"} |->
           IF k = "files" THEN YIntList(files) ELSE item.d[k]])

\* the parsed entry after item["files"] = sorted(list(set(validated_indices)))
ItemAfterValidation(item, files) ==
  YDict([k \in DOMAIN item.d \cup {"files"} |->
           IF k = "files" THEN YIntList(files) ELSE item.d[k]])

\* the parsed abstraction list once exec has accepted it
AbstractionsAfterValidation(y, validated_abstractions) ==
  YList([i \in 1..Len(y.items) |->
           ItemAfterValidation(y.items[i], validated_abstractions[i].files)])

\* the list of {"name", "description", "files"} returned by
\* IdentifyAbstractions.exec
StoredAbstractions(validated_abstractions) ==
  YList([i \in 1..Len(validated_abstractions) |->
    YDict([k \in {"name", "description", "files"} |->
      CASE k = "name" -> YStr(validated_abstractions[i].name)
        [] k = "description" -> YStr(validated_abstractions[i].description)
        [] OTHER -> YIntList(validated_abstractions[i].files)])])

\* the {"summary", "details"} returned by AnalyzeRelationships.exec
StoredRelationships(res) ==
  YDict([k \in {"summary", "details"} |->
    IF k = "summary" THEN YStr(res.summary)
    ELSE YList([i \in 1..Len(res.details) |->
           YDict([f \in {"from", "to", "label"} |->
             CASE f = "from" -> YInt(res.details[i].from)
               [] f = "to" -> YInt(res.details[i].to)
               [] OTHER -> YStr(res.details[i].label)])])])

\* the ordered_indices returned by OrderChapters.exec
StoredOrder(ordered_indices) == YIntList(ordered_indices)

(***************************************************************************)
(* Round trips of the three validators.                                    *)
(***************************************************************************)
C17_Accepted(stage) == pc = At(stage, "post")

\* the validator of the stage accepts y with the value the stage holds
C17_AcceptsSame(stage, y) ==
  LET reply == TextReply("yaml", y) IN
  CASE stage = "IdentifyAbstractions" ->
         LET r == IdentifyAbstractionsValidate(reply, prep_res.file_count)
         IN r.ok /\ r.value = exec_res
    [] stage = "AnalyzeRelationships" ->
         LET r == AnalyzeRelationshipsValidate(reply, prep_res.num_abstractions)
         IN r.ok /\ r.value = exec_res
    [] OTHER ->
         LET r == OrderChaptersValidate(reply, prep_res.num_abstractions)
         IN r.ok /\ r.value = exec_res

C17_Stored(stage) ==
  CASE stage = "IdentifyAbstractions" -> StoredAbstractions(exec_res)
    [] stage = "AnalyzeRelationships" -> StoredRelationships(exec_res)
    [] OTHER -> StoredOrder(exec_res)

C17_Validators ==
  {"IdentifyAbstractions", "AnalyzeRelationships", "OrderChapters"}

\* C17 as stated: each of the three validators accepts again, with the same
\* validated value, the structure it has accepted and also the validated
\* value it produced.
C17_Original ==
  \A stage \in C17_Validators :
    C17_Accepted(stage) =>
      /\ C17_AcceptsSame(stage, last_reply.yaml)
      /\ C17_AcceptsSame(stage, C17_Stored(stage))

\* C17: each of the three validators accepts again, with the same validated
\* value, the structure it has accepted (for the abstraction list also as
\* the validation left it, every entry carrying its "files").  Of the
\* validated values only the chapter order and the empty abstraction list
\* are accepted again: a stored abstraction has no "file_indices" and the
\* stored relationships have no "relationships", so both are rejected for
\* missing keys.
C17_AcceptedStructureRoundTrips ==
  /\ \A stage \in C17_Validators :
       C17_Accepted(stage) => C17_AcceptsSame(stage, last_reply.yaml)
  /\ C17_Accepted("IdentifyAbstractions") =>
       /\ C17_AcceptsSame("IdentifyAbstractions",
            AbstractionsAfterValidation(last_reply.yaml, exec_res))
       /\ exec_res = <<>> =>
            C17_AcceptsSame("IdentifyAbstractions", StoredAbstractions(exec_res))
       /\ exec_res # <<>> =>
            IdentifyAbstractionsValidate(
              TextReply("yaml", StoredAbstractions(exec_res)),
              prep_res.file_count).err = "Missing keys in abstraction item"
  /\ C17_Accepted("AnalyzeRelationships") =>
       AnalyzeRelationshipsValidate(
         TextReply("yaml", StoredRelationships(exec_res)),
         prep_res.num_abstractions).err
         = "LLM output is not a dict or missing keys"
  /\ C17_Accepted("OrderChapters") =>
       C17_AcceptsSame("OrderChapters", StoredOrder(exec_res))

\* two abstractions were accepted and their stored form is rejected
C17_Witness ==
  /\ C17_Accepted("IdentifyAbstractions")
  /\ Len(exec_res) = 2
  /\ exec_res[1].files = <<0, 1>>
  /\ C17_AcceptsSame("IdentifyAbstractions",
       AbstractionsAfterValidation(last_reply.yaml, exec_res))
  /\ ~IdentifyAbstractionsValidate(
        TextReply("yaml", StoredAbstractions(exec_res)),
        prep_res.file_count).ok

(***************************************************************************)
(* Properties of a run without source files.                               *)
(***************************************************************************)
C18_NoFiles == pc = At("FetchRepo", "aborted")

\* C18: a collector result without files is fatal in FetchRepo.exec: the run
\* stops there for good, "files" is not in the context, no other node has
\* started and nothing is written; so whenever "files" is in the context or
\* any later node has started, the collector returned at least one file.
C18_NoFilesIsFatal ==
  /\ [](C18_NoFiles =>
          /\ last_error.err = "Failed to fetch files"
          /\ "files" \notin keys
          /\ StageKeys \cap keys = {}
          /\ hist.started = <<"FetchRepo">>
          /\ output = <<>>)
  /\ []("files" \in keys => shared.files # <<>>)
  /\ [](Len(hist.started) > 1 => "files" \in keys /\ shared.files # <<>>)
  /\ [][pc = At("FetchRepo", "exec") /\ pc'.phase = "post" =>
          exec_res' # <<>>]_vars
  /\ [][~C18_NoFiles]_vars

C18_Witness ==
  /\ C18_NoFiles
  /\ last_error.err = "Failed to fetch files"
  /\ hist.attempts = 1
  /\ shared.files = <<>>

(***************************************************************************)
(* Properties of the reference document.                                   *)
(***************************************************************************)
\* CombineTutorial.prep has run: prep_res holds the index content
C19_Built ==
  \/ pc.stage = "CombineTutorial" /\ pc.phase \in {"exec", "post"}
  \/ pc = At("End", "done")

\* CombineTutorial.exec has run: output holds the files written
C19_Written ==
  \/ pc = At("CombineTutorial", "post")
  \/ pc = At("End", "done")

C19_NonBlank(text) == \E i \in 1..Len(text) : text[i] \notin Whitespace

C19_ReferenceFiles == {i \in 1..Len(output) : output[i].kind = "api"}

\* C19: the index links to the reference document exactly when the stored
\* API documentation has a character that is not white space, and
\* api_reference.md is written exactly when the index links to it.
C19_ReferenceLinkedIffWritten ==
  /\ C19_Built =>
       (prep_res.index_content.api_link
          <=> C19_NonBlank(shared.api_documentation_md))
  /\ C19_Written =>
       /\ (C19_ReferenceFiles # {}) <=> prep_res.index_content.api_link
       /\ \A i \in C19_ReferenceFiles :
            output[i].filename
              = <<"a", "p", "i", "_", "r", "e", "f", "e", "r", "e", "n", "c",
                  "e", ".", "m", "d">>
  /\ ~C19_Written => C19_ReferenceFiles = {}

C19_Witness ==
  /\ pc = At("End", "done")
  /\ C19_NonBlank(shared.api_documentation_md)
  /\ prep_res.index_content.api_link
  /\ C19_ReferenceFiles = {2}

\* a run without API documentation: no link and no reference file
C19_WitnessNoDocument ==
  /\ pc = At("End", "done")
  /\ shared.api_documentation_md = <<>>
  /\ ~prep_res.index_content.api_link
  /\ C19_ReferenceFiles = {}

(***************************************************************************)
(* Properties of the attempts of one chapter item.                         *)
(***************************************************************************)
C20_InExec == pc = At("WriteChapters", "exec")

\* C20: every chapter item starts at attempt number 0 whatever the items
\* before it consumed; each call carries the attempt number of its own item
\* and is cache-eligible exactly at attempt 0 (with use_cache on); a failed
\* attempt aborts the run only when it was the item's fifth.
C20_BudgetPerItem ==
  /\ [](C20_InExec /\ last_call.stage = "WriteChapters" =>
          /\ last_call.retry \in 0..(MaxRetries("WriteChapters") - 1)
          /\ last_call.cache = (prep_res.use_cache /\ last_call.retry = 0)
          /\ last_call.item < batch_i => cur_retry = 0
          /\ last_call.item = batch_i => cur_retry = last_call.retry + 1)
  /\ [][C20_InExec =>
          /\ last_call'.item = batch_i
          /\ last_call'.retry = cur_retry
          /\ cur_retry = 0 => last_call'.cache = prep_res.use_cache
          /\ cur_retry > 0 => ~last_call'.cache
          /\ batch_i' # batch_i => batch_i' = batch_i + 1 /\ cur_retry' = 0
          /\ pc'.phase = "aborted" =>
               cur_retry = MaxRetries("WriteChapters") - 1
          /\ (last_reply'.kind = "transport"
              /\ cur_retry < MaxRetries("WriteChapters") - 1) =>
               /\ C20_InExec'
               /\ batch_i' = batch_i
               /\ cur_retry' = cur_retry + 1]_vars

\* the first item needed all of its attempts and the second starts at 0
C20_Witness ==
  /\ C20_InExec
  /\ batch_i = 2
  /\ cur_retry = 0
  /\ prep_res.use_cache
  /\ last_call.item = 1
  /\ last_call.retry = MaxRetries("WriteChapters") - 1

\* the second item is at its last attempt
C20_WitnessLastAttempt ==
  /\ C20_InExec
  /\ batch_i = 2
  /\ cur_retry = MaxRetries("WriteChapters") - 1
  /\ last_call.item = 2
  /\ ~last_call.cache

(***************************************************************************)
(* Properties of the index entries the validators accept.                  *)
(***************************************************************************)
\* the file_indices entries of the abstraction list accepted last
C21_AcceptedEntries ==
  IF pc = At("IdentifyAbstractions", "post")
  THEN UNION {Range(last_reply.yaml.items[i].d["file_indices"].items) :
                i \in 1..Len(last_reply.yaml.items)}
  ELSE {}

\* an integer, or a string whose part before "#" is a base-10 integer
C21_IntegerOrCommented(entry) ==
  \/ entry.t = "int"
  \/ entry.t = "str" /\ ParseInt(Strip(SplitHashFirst(entry.s))).ok

\* C21 as stated: an accepted entry is an integer or a string whose leading
\* part before "#" is a base-10 integer, with its value in range; no other
\* scalar (a boolean, a float, null) is accepted as an index.
C21_Original ==
  \A entry \in C21_AcceptedEntries :
    /\ C21_IntegerOrCommented(entry)
    /\ ParseIndexEntry(entry).v \in 0..(prep_res.file_count - 1)

(***************************************************************************)
(* Properties of the location of the data block.                           *)
(***************************************************************************)
\* the last reply has only a plain fence, around a block that is accepted
\* when it stands in a ```yaml fence
C22_PlainFenceValidBlock ==
  /\ pc.stage = "IdentifyAbstractions"
  /\ pc.phase # "prep"
  /\ last_reply.kind = "text"
  /\ last_reply.fence = "plain"
  /\ IdentifyAbstractionsValidate([last_reply EXCEPT !.fence = "yaml"],
                                  prep_res.file_count).ok

\* C22 as stated: when the reply has no language-tagged fence but has a
\* plain fenced region, the content of that region is taken as the data
\* block and validated, so a valid block in a plain fence is accepted.
C22_Original ==
  C22_PlainFenceValidBlock =>
    /\ pc.phase = "post"
    /\ last_error.err = "none"
    /\ exec_res = IdentifyAbstractionsValidate(
                    [last_reply EXCEPT !.fence = "yaml"],
                    prep_res.file_count).value

C23_DerivedName(w) ==
  w.stage = "FetchRepo" /\ w.phase = "prep" /\ w.key = "project_name"

C24_Frozen == {"files", "abstractions", "relationships", "chapter_order"}

\* C24: the post step of its stage stores each of files, abstractions,
\* relationships and chapter_order as exec returned it, and no later step
\* of the run changes the stored value.
C24_StoredValuesKept ==
  [][\A key \in C24_Frozen :
       /\ key \in keys => shared'[key] = shared[key]
       /\ (pc.phase = "post" /\ StoredKey(pc.stage) = key) =>
            shared'[key] = exec_res]_vars

\* a finished run with two files, two abstractions in reversed order and
\* three relationships
C24_Witness ==
  /\ pc = At("End", "done")
  /\ C24_Frozen \subseteq keys
  /\ Len(shared.files) = 2
  /\ Len(shared.abstractions) = 2
  /\ Len(shared.relationships.details) = 3
  /\ shared.chapter_order = <<1, 0>>
  /\ Len(output) = 3

(***************************************************************************)
(* Properties of the prompt of a chapter item.                             *)
(***************************************************************************)
C25_Called == pc.stage = "WriteChapters" /\ last_call.stage = "WriteChapters"

C25_Chapter(c) == [name |-> c.name, filename |-> c.filename]

C25_Holds(prompt, part, chapter) ==
  part \in DOMAIN prompt /\ C25_Chapter(prompt[part]) = C25_Chapter(chapter)

\* C25 as stated: the prompt of the item at position i holds the table of
\* contents computed by prep, the same for every item, the title and
\* filename of the chapter at position i - 1 unless i is the first, and of
\* the chapter at position i + 1 unless i is the last.
C25_Original ==
  C25_Called =>
    LET i == last_call.item
        n == Len(prep_res.items)
        listing == ChapterListing(1, shared.chapter_order, shared.abstractions)
    IN
    /\ last_call.prompt.full_chapter_listing = listing
    /\ \A k \in 1..n : prep_res.items[k].full_chapter_listing = listing
    /\ i > 1 <=> "prev_chapter" \in DOMAIN last_call.prompt
    /\ i > 1 => C25_Holds(last_call.prompt, "prev_chapter", listing[i - 1])
    /\ i < n <=> "next_chapter" \in DOMAIN last_call.prompt
    /\ i < n => C25_Holds(last_call.prompt, "next_chapter", listing[i + 1])

(***************************************************************************)
(* Properties of the diagram.                                              *)
(***************************************************************************)
C26_Nodes == prep_res.index_content.nodes

C26_Edges == prep_res.index_content.edges

C26_NodeIds == {C26_Nodes[i].id : i \in 1..Len(C26_Nodes)}

\* C26: the diagram has one node per stored abstraction, with the index of
\* the abstraction as its id, and one edge per stored relationship, in
\* order, from and to the indices of that relationship; both ends of every
\* edge are ids of declared nodes.
C26_NoDanglingEdge ==
  C19_Built =>
    /\ Len(C26_Nodes) = Len(shared.abstractions)
    /\ \A i \in 1..Len(C26_Nodes) : C26_Nodes[i].id = i - 1
    /\ Len(C26_Edges) = Len(shared.relationships.details)
    /\ \A i \in 1..Len(C26_Edges) :
         /\ C26_Edges[i].from = shared.relationships.details[i].from
         /\ C26_Edges[i].to = shared.relationships.details[i].to
         /\ C26_Edges[i].from \in C26_NodeIds
         /\ C26_Edges[i].to \in C26_NodeIds

\* one abstraction and three relationships, each from it to itself
C26_Witness ==
  /\ pc = At("End", "done")
  /\ Len(C26_Nodes) = 1
  /\ Len(C26_Edges) = 3
  /\ \A i \in 1..3 : C26_Edges[i].from = 0 /\ C26_Edges[i].to = 0

\* two abstractions with edges in both directions
C26_WitnessTwoNodes ==
  /\ pc = At("End", "done")
  /\ Len(C26_Nodes) = 2
  /\ Len(C26_Edges) = 3
  /\ C26_Edges[1].from = 0 /\ C26_Edges[1].to = 1
  /\ C26_Edges[2].from = 1 /\ C26_Edges[2].to = 0

(***************************************************************************)
(* Properties of the chapter files.                                        *)
(***************************************************************************)
C27_Files == prep_res.chapter_files

C27_Links == prep_res.index_content.links

\* the body, a blank line unless the body ends with one, and the footer
C27_BodyThenFooter(content, body) ==
  \E sep \in {<<>>, <<"\n", "\n">>} : content = body \o sep \o Footer

\* C27: WriteChapters prepares one item per entry of the chapter order and
\* CombineTutorial builds one index link and one chapter file per entry, in
\* that order; the file at position i has the name of the abstraction at
\* chapter_order[i] and the body stored for position i, which is the i-th
\* result of exec and was requested for that abstraction, followed by the
\* footer; no entry is skipped.
C27_OneFilePerAbstraction ==
  /\ (pc.stage = "WriteChapters" /\ pc.phase \in {"exec", "post"}) =>
       /\ Len(prep_res.items) = Len(shared.abstractions)
       /\ \A i \in 1..Len(prep_res.items) :
            /\ prep_res.items[i].chapter_num = i
            /\ prep_res.items[i].abstraction_index = shared.chapter_order[i]
            /\ prep_res.items[i].name = C13_NameAtPosition(i)
       /\ hist.written_pos = [i \in 1..Len(exec_res) |-> i]
       /\ last_call.stage = "WriteChapters" =>
            /\ last_call.item \in {Len(exec_res), Len(exec_res) + 1}
            /\ last_call.prompt.chapter_num = last_call.item
            /\ last_call.prompt.abstraction_name
                 = C13_NameAtPosition(last_call.item)
  /\ C19_Built =>
       /\ Len(C27_Files) = Len(shared.abstractions)
       /\ Len(C27_Links) = Len(shared.abstractions)
       /\ Len(shared.chapter_order) = Len(shared.abstractions)
       /\ \A i \in 1..Len(C27_Files) :
            /\ C27_Files[i].num = i
            /\ C27_Links[i].num = i
            /\ C27_Files[i].name = C13_NameAtPosition(i)
            /\ C27_Links[i].name = C13_NameAtPosition(i)
            /\ C27_Links[i].filename = C27_Files[i].filename
            /\ C27_BodyThenFooter(C27_Files[i].content, shared.chapters[i])
  /\ C19_Written =>
       /\ Len(C15_ChapterOutput) = Len(shared.abstractions)
       /\ \A i \in 1..Len(C15_ChapterOutput) :
            C15_ChapterOutput[i].filename = C27_Files[i].filename

\* two abstractions written in reversed order
C27_Witness ==
  /\ pc = At("End", "done")
  /\ shared.chapter_order = <<1, 0>>
  /\ Len(C27_Files) = 2
  /\ C27_Files[1].name = NameAt(1)
  /\ C27_Files[2].name = NameAt(0)
  /\ Len(C15_ChapterOutput) = 2

(***************************************************************************)
(* The run from the crawl's end to the end of the frontend call analysis,  *)
(* on crawl results that hold up to two Python and two frontend files.     *)
(***************************************************************************)
InitFiles ==
  /\ pc = At("AnalyzeFastAPIEndpoints", "prep")
  /\ \E n \in 1..(MaxFiles + 3) :
       /\ shared = SharedWith([i \in 1..n |-> FileAt(i - 1)], <<>>,
                              [summary |-> <<>>, details |-> <<>>])
       /\ exec_res = [i \in 1..n |-> FileAt(i - 1)]
  /\ keys = KeysAfter(1)
  /\ prep_res = [use_cache |-> FALSE]
  /\ cur_retry = 0
  /\ chapters_written_so_far = <<>>
  /\ batch_i = 0
  /\ last_call = NoCall
  /\ last_reply = NoReply
  /\ last_error = NoError
  /\ output = <<>>
  /\ hist = HistFinished(1)

NextFiles ==
  \/ AnalyzeFastAPIEndpointsPrep \/ AnalyzeFastAPIEndpointsExec
  \/ AnalyzeFastAPIEndpointsPost
  \/ GenerateAPIDocumentationPrep \/ GenerateAPIDocumentationExec
  \/ GenerateAPIDocumentationPost
  \/ IdentifyAbstractionsPrep \/ IdentifyAbstractionsExec
  \/ IdentifyAbstractionsPost
  \/ AnalyzeAPICallsPrep \/ AnalyzeAPICallsExec \/ AnalyzeAPICallsPost

SpecFiles == InitFiles /\ [][NextFiles]_vars

(***************************************************************************)
(* Properties of the API analysis stages.                                  *)
(***************************************************************************)
C28_FileStages == {"AnalyzeFastAPIEndpoints", "AnalyzeAPICalls"}

C28_NonEmptyList(reply) ==
  /\ reply.kind = "text"
  /\ reply.yaml.t = "list"
  /\ reply.yaml.items # <<>>

\* result lists, in the order of the files, exactly the files whose reply
\* was a non-empty list, each with the items of its reply
C28_ResultOf(files, replies, result) ==
  \E pos \in [1..Len(result) -> 1..Len(files)] :
    /\ \A k \in 1..(Len(result) - 1) : pos[k] < pos[k + 1]
    /\ Range(pos) = {i \in 1..Len(files) : C28_NonEmptyList(replies[i])}
    /\ \A k \in 1..Len(result) :
         /\ result[k].file_path = files[pos[k]].path
         /\ result[k].found = replies[pos[k]].yaml.items

C28_WitnessDocument ==
  /\ pc = At("GenerateAPIDocumentation", "post")
  /\ ~prep_res.none
  /\ last_reply.kind = "transport"
  /\ exec_res = <<>>

(***************************************************************************)
(* The run under the assumption that every call returns or fails: a step   *)
(* that can be taken is eventually taken (the flow is one sequential       *)
(* thread, and the only waits are the calls and the sleeps between         *)
(* attempts).                                                              *)
(***************************************************************************)
\* the runs that were given a project name and have the cache on: neither
\* input decides which step follows which
InitLive == Init /\ shared.use_cache /\ "project_name" \in keys

SpecLive == InitLive /\ [][Next]_vars /\ WF_vars(Next)

(***************************************************************************)
(* Termination.                                                            *)
(***************************************************************************)
C29_Terminal == pc = At("End", "done") \/ Aborted

\* the attempts each node is configured with
C29_MaxAttempts(stage) ==
  CASE stage \in RetryStages -> 5
    [] stage \in {"AnalyzeFastAPIEndpoints", "GenerateAPIDocumentation",
                  "AnalyzeAPICalls"} -> 3
    [] OTHER -> 1

C29_StageNumber(stage) ==
  IF stage = "End" THEN Len(StageOrder) + 1 ELSE StageIndex(stage)

C29_PhaseNumber(phase) ==
  CASE phase = "prep" -> 1 [] phase = "exec" -> 2 [] OTHER -> 3

\* C29: every run reaches the end with the output written, or an abort, and
\* stays there. On the way a stage (a chapter item in the batch) makes no
\* more attempts than it is configured with, and the run only moves forward:
\* to a later step of the same stage, the next item, or a later stage.
C29_RunTerminates ==
  /\ <>C29_Terminal
  /\ [][~C29_Terminal]_vars
  /\ [](pc = At("End", "done") =>
          "final_output_dir" \in keys /\ output # <<>>)
  /\ [](/\ hist.started # <<>> =>
             hist.attempts <= C29_MaxAttempts(hist.started[Len(hist.started)])
        /\ pc.phase = "exec" => cur_retry < C29_MaxAttempts(pc.stage))
  /\ [][/\ C29_StageNumber(pc'.stage) >= C29_StageNumber(pc.stage)
        /\ pc'.stage = pc.stage =>
             /\ C29_PhaseNumber(pc'.phase) >= C29_PhaseNumber(pc.phase)
             /\ batch_i' >= batch_i
             /\ (pc' = pc /\ batch_i' = batch_i) =>
                  cur_retry' = cur_retry + 1]_vars

\* a run that went through all nine stages, wrote two chapters and ended
C29_Witness ==
  /\ pc = At("End", "done")
  /\ hist.started = StageOrder
  /\ Len(shared.chapters) = 2
  /\ Len(output) = 3

\* a run that aborted in the chapter batch after the first item was written
C29_WitnessAborted ==
  /\ pc = At("WriteChapters", "aborted")
  /\ batch_i = 2
  /\ cur_retry = C29_MaxAttempts("WriteChapters") - 1

(***************************************************************************)
(* A run with no abstraction.                                              *)
(***************************************************************************)
C30_NoAbstractions == "abstractions" \in keys /\ shared.abstractions = <<>>

C30_EmptyList(reply) ==
  reply.kind = "text" /\ reply.fence = "yaml" /\ reply.yaml = YList(<<>>)

\* C30: the abstraction stage accepts the empty list as its result. With no
\* abstraction stored, the relationship stage goes on only after a reply
\* with an empty relationship list and the chapter-order stage only after an
\* empty list; chapter writing has no item and makes no call; the index is
\* built with no node, edge or chapter link, and the files written are the
\* index and, if there is one, the API reference.
C30_EmptyRunCompletes ==
  /\ [][(pc = At("IdentifyAbstractions", "exec") /\ C30_EmptyList(last_reply')) =>
          pc' = At("IdentifyAbstractions", "post") /\ exec_res' = <<>>]_vars
  /\ [](C30_NoAbstractions =>
          /\ pc = At("AnalyzeRelationships", "post") =>
               /\ last_reply.yaml.d["relationships"] = YList(<<>>)
               /\ exec_res.details = <<>>
          /\ "relationships" \in keys => shared.relationships.details = <<>>
          /\ pc = At("OrderChapters", "post") =>
               C30_EmptyList(last_reply) /\ exec_res = <<>>
          /\ "chapter_order" \in keys => shared.chapter_order = <<>>
          /\ pc # At("WriteChapters", "exec")
          /\ pc = At("WriteChapters", "post") =>
               /\ prep_res.items = <<>>
               /\ exec_res = <<>>
               /\ last_call = NoCall
          /\ "chapters" \in keys => shared.chapters = <<>>
          /\ C19_Built =>
               /\ prep_res.chapter_files = <<>>
               /\ prep_res.index_content.links = <<>>
               /\ prep_res.index_content.nodes = <<>>
               /\ prep_res.index_content.edges = <<>>
          /\ C19_Written =>
               /\ output[1].kind = "index"
               /\ \A i \in 2..Len(output) : output[i].kind = "api"
          /\ Aborted => pc.stage \in {"AnalyzeRelationships", "OrderChapters"})

\* a finished run with no abstraction: only the index was written
C30_Witness ==
  /\ pc = At("End", "done")
  /\ C30_NoAbstractions
  /\ Len(shared.files) > 0
  /\ Len(output) = 1
  /\ output[1].kind = "index"

\* with no abstraction a reply with one relationship was rejected
C30_WitnessRejected ==
  /\ pc = At("AnalyzeRelationships", "exec")
  /\ C30_NoAbstractions
  /\ last_reply.kind = "text"
  /\ last_reply.yaml.t = "dict"
  /\ last_reply.yaml.d["relationships"].t = "list"
  /\ Len(last_reply.yaml.d["relationships"].items) = 1
  /\ cur_retry > 0

====
